---- MODULE Spec2Model ----
(***************************************************************************)
(* Billing reconciliation core of dwolla-billing: the usage webhook        *)
(* (src/webhooks/ghl-usage.js), the weekly billing job and the transfer    *)
(* initiator (src/server.js) and the Dwolla status webhook                 *)
(* (src/webhooks/dwolla-webhook.js), over the three tables of the schema.  *)
(*                                                                         *)
(* The datastore is PostgreSQL at its default isolation level (READ        *)
(* COMMITTED): the tables hold the committed rows, every open transaction  *)
(* keeps its own uncommitted writes, a statement that would write a row    *)
(* another open transaction has written waits for that transaction to end. *)
(***************************************************************************)
EXTENDS Integers, Sequences, FiniteSets, TLC

(***************************************************************************)
(* Bounds of the model.                                                    *)
(***************************************************************************)
MaxNow == 4           \* the clock stops at MaxNow

(***************************************************************************)
(* Program constants.                                                      *)
(***************************************************************************)
PRICE_PER_UNIT_CENTS == 400
DefaultRetries == 3
WeekLen == 2          \* clock ticks in one week
UnitScale == 1000     \* usage_ledger.units is numeric: kept in thousandths
NULL == 0             \* SQL NULL of an integer or reference column
NoHref == "null"      \* SQL NULL of a text column
TokenLife == 1        \* clock ticks a credential is cached for

Customers == {"c1", "c2"}
Keys == {"k1", "k2"}
Names == {"n1", "n2"}
UsageSlots == {"u1", "u2"}    \* usage requests that can be in flight at once
Runs == {"r1", "r2"}          \* billing requests, each received once

NoRow == [none |-> TRUE]

(***************************************************************************)
(* JavaScript values of a request body, and the conversions the handlers   *)
(* apply to them.                                                          *)
(***************************************************************************)
JsUndefined == [t |-> "undefined"]
JsNull == [t |-> "null"]
JsStr(s) == [t |-> "string", s |-> s]
JsNum(n) == [t |-> "number", n |-> n]      \* n in thousandths

\* !v
Falsy(v) ==
    \/ v.t = "undefined"
    \/ v.t = "null"
    \/ (v.t = "string" /\ v.s = "")
    \/ (v.t = "number" /\ v.n = 0)

\* The decimal literals that occur in request bodies, in thousandths.
NumericLiterals == {<<"2", 2000>>, <<"-1", -1000>>, <<"0", 0>>, <<"", 0>>}

NaN == [nan |-> TRUE]
Num(n) == [nan |-> FALSE, n |-> n]

\* Number(v)
Number(v) ==
    CASE v.t = "number" -> Num(v.n)
      [] v.t = "null" -> Num(0)
      [] v.t = "undefined" -> NaN
      [] v.t = "string" ->
            IF \E p \in NumericLiterals : p[1] = v.s
            THEN Num((CHOOSE p \in NumericLiterals : p[1] = v.s)[2])
            ELSE NaN

\* DateTime.toISO(): the instant t written as a string.
ToISO(t) == "T" \o ToString(t)

Instants == 0 .. MaxNow

\* DateTime.fromISO(s).isValid
IsValidISO(s) == \E t \in Instants : ToISO(t) = s

\* The timestamptz a valid ISO string denotes.
FromISO(s) == CHOOSE t \in Instants : ToISO(t) = s

\* Math.round(num / den) for den > 0: the nearest integer, halves upwards.
MathRound(num, den) == (2 * num + den) \div (2 * den)

\* DateTime.now().setZone(TZ).startOf('week')
StartOfWeek(t) == (t \div WeekLen) * WeekLen

(***************************************************************************)
(* validateUsageWebhook                                                    *)
(***************************************************************************)
\* The validation without its condition on units.
validateUsageWebhookButUnits(body) ==
    LET e1 == IF Falsy(body.crm_contact_id) \/ body.crm_contact_id.t # "string"
              THEN <<"crm_contact_id is required and must be a string">> ELSE <<>>
        e2 == IF Falsy(body.idempotency_key) \/ body.idempotency_key.t # "string"
              THEN <<"idempotency_key is required and must be a string">> ELSE <<>>
        e4 == IF Falsy(body.occurred_at)
              THEN <<"occurred_at is required and must be a valid ISO 8601 timestamp">>
              ELSE IF body.occurred_at.t # "string"
              THEN <<"occurred_at is required and must be a valid ISO 8601 timestamp">>
              ELSE IF ~IsValidISO(body.occurred_at.s)
              THEN <<"occurred_at is required and must be a valid ISO 8601 timestamp">>
              ELSE <<>>
    IN  e1 \o e2 \o e4

validateUsageWebhook(body) ==
    LET e1 == IF Falsy(body.crm_contact_id) \/ body.crm_contact_id.t # "string"
              THEN <<"crm_contact_id is required and must be a string">> ELSE <<>>
        e2 == IF Falsy(body.idempotency_key) \/ body.idempotency_key.t # "string"
              THEN <<"idempotency_key is required and must be a string">> ELSE <<>>
        e3 == IF body.units.t \in {"undefined", "null"}
              THEN <<"units is required and must be a positive number">>
              ELSE IF Number(body.units).nan
              THEN <<"units is required and must be a positive number">>
              ELSE IF Number(body.units).n <= 0
              THEN <<"units is required and must be a positive number">>
              ELSE <<>>
        e4 == IF Falsy(body.occurred_at)
              THEN <<"occurred_at is required and must be a valid ISO 8601 timestamp">>
              ELSE IF body.occurred_at.t # "string"
              THEN <<"occurred_at is required and must be a valid ISO 8601 timestamp">>
              ELSE IF ~IsValidISO(body.occurred_at.s)
              THEN <<"occurred_at is required and must be a valid ISO 8601 timestamp">>
              ELSE <<>>
    IN  e1 \o e2 \o e3 \o e4

(***************************************************************************)
(* Request bodies the usage webhook receives.                              *)
(***************************************************************************)
Body(c, n, u, t, k) ==
    [crm_contact_id |-> c, name |-> n, email |-> JsStr("e1"), units |-> u,
     occurred_at |-> t, idempotency_key |-> k]

\* An instant inside the first week, and the first instant of the second.
OccurTimes == {WeekLen - 1, WeekLen}

\* The requests of the deployment the billing job is checked in: one customer,
\* each key with its own quantity, the event in either week.
CoreBodies ==
    {Body(JsStr("c1"), JsStr("n1"), JsStr("2"), JsStr(ToISO(t)), JsStr("k1")) :
        t \in OccurTimes}
    \cup
    {Body(JsStr("c1"), JsStr("n1"), JsNum(1000), JsStr(ToISO(t)), JsStr("k2")) :
        t \in OccurTimes}

CoreHeaders == {"Bearer ghl-secret"}

VARIABLES
    now,            \* the clock
    env,            \* process.env
    customers,      \* table customers: the committed rows
    usage_ledger,   \* table usage_ledger: the committed rows
    invoices,       \* table invoices: the committed rows
    invoiceSeq,     \* sequence invoices_id_seq: the last id handed out
    tokenCache,     \* the cached Dwolla credential
    transferSeq,    \* the payment processor: the last transfer it created
    usage,          \* per usage request: its position, transaction and response
    bill,           \* per billing request: its position, transaction and response
    firstRecorded,  \* history: the body of each request answered recorded=true
    txnLog,         \* history: per invoice id, the billing attempt that drew it;
                    \* under id NULL, the attempts whose transfer call failed
    checkedOut      \* the clients of the pool db checked out and not released

vars == <<now, env, customers, usage_ledger, invoices, invoiceSeq, tokenCache,
          transferSeq, usage, bill, firstRecorded, txnLog, checkedOut>>

dbVars == <<customers, usage_ledger, invoices, invoiceSeq>>

(***************************************************************************)
(* Rows of the tables (src/unnamed/part_003).                              *)
(***************************************************************************)
CustomerRow(c, name, email, cust_href, funding_href, status) ==
    [crm_contact_id |-> c, name |-> name, email |-> email,
     dwolla_customer_href |-> cust_href, dwolla_funding_href |-> funding_href,
     status |-> status]

UsageRow(k, c, units, occurred_at, invoice_id) ==
    [idempotency_key |-> k, crm_contact_id |-> c, units |-> units,
     occurred_at |-> occurred_at, invoice_id |-> invoice_id]

\* status defaults to 'initiated', created_at and updated_at to now().
InvoiceRow(id, c, period_start, period_end, amount_cents, transfer_href, at) ==
    [id |-> id, crm_contact_id |-> c, period_start |-> period_start,
     period_end |-> period_end, amount_cents |-> amount_cents,
     dwolla_transfer_href |-> transfer_href, status |-> "initiated",
     created_at |-> at, updated_at |-> at]

(***************************************************************************)
(* The usage webhook, POST /ghl/usage (src/webhooks/ghl-usage.js).         *)
(***************************************************************************)
NoBody == [none |-> TRUE]

UsageIdle ==
    [pc |-> "idle", authorization |-> "", body |-> NoBody, pendCust |-> NoRow,
     pendUsage |-> NoRow, rows |-> 0]

\* The handler without its authentication.
UsageRefusalUnauthenticated(authorization, body) ==
    IF validateUsageWebhook(body) # <<>> THEN 400 ELSE 0

\* The response a request is refused with before it touches the datastore; 0: none.
UsageRefusal(authorization, body) ==
    IF authorization # "Bearer " \o env.GHL_BEARER THEN 401
    ELSE IF validateUsageWebhook(body) # <<>> THEN 400
    ELSE 0

\* The 200 response with isNew taken to be true.
UsageResponseAlwaysRecorded(rows) ==
    [status |-> 200, success |-> TRUE, recorded |-> TRUE, message |-> "Usage recorded"]

\* The body of the 200 response after COMMIT.
UsageResponse(rows) ==
    [status |-> 200, success |-> TRUE, recorded |-> rows > 0,
     message |-> IF rows > 0 THEN "Usage recorded" ELSE "Duplicate request ignored"]

\* An upsert that replaces the row: the columns it does not name take their
\* defaults.
UpsertCustomerReplacing(table, c, name, email) ==
    CustomerRow(c, name, email, NoHref, NoHref, "pending")

\* An upsert with ON CONFLICT (crm_contact_id) DO NOTHING.
UpsertCustomerKeeping(table, c, name, email) ==
    IF \E r \in table : r.crm_contact_id = c
    THEN CHOOSE r \in table : r.crm_contact_id = c
    ELSE CustomerRow(c, name, email, NoHref, NoHref, "pending")

\* INSERT INTO customers ... ON CONFLICT (crm_contact_id) DO UPDATE
\* SET name = EXCLUDED.name, email = EXCLUDED.email: the row the statement leaves.
UpsertCustomer(table, c, name, email) ==
    IF \E r \in table : r.crm_contact_id = c
    THEN LET old == CHOOSE r \in table : r.crm_contact_id = c
         IN  [old EXCEPT !.name = name, !.email = email]
    ELSE CustomerRow(c, name, email, NoHref, NoHref, "pending")

\* The INSERT without its ON CONFLICT clause and without the unique constraint.
InsertUsageAgain(table, k, c, units, occurred_at) ==
    {UsageRow(k, c, units, occurred_at, NULL)}

\* INSERT INTO usage_ledger ... ON CONFLICT (idempotency_key) DO NOTHING
\* RETURNING id: the rows the statement inserts.
InsertUsage(table, k, c, units, occurred_at) ==
    IF \E r \in table : r.idempotency_key = k
    THEN {}
    ELSE {UsageRow(k, c, units, occurred_at, NULL)}

\* A COMMIT that leaves the customer row out.
PutCustomerNowhere(table, row) == table

\* Writing a committed row: the row with the same primary key is replaced.
PutCustomer(table, row) ==
    {r \in table : r.crm_contact_id # row.crm_contact_id} \cup {row}

\* Row locks: the open transaction of request s has written customer c, key k.
WritesCustomer(s, c) ==
    IF usage[s].pendCust = NoRow THEN FALSE ELSE usage[s].pendCust.crm_contact_id = c

\* An INSERT that does not wait for an uncommitted row with its key.
WritesKeyUnseen(s, k) == FALSE

WritesKey(s, k) ==
    IF usage[s].pendUsage = NoRow THEN FALSE ELSE usage[s].pendUsage.idempotency_key = k

\* const client = await db.connect(): one more client is checked out.
Connect(n) == n + 1

\* client.release() after the catch block instead of in finally: it is not
\* reached when ROLLBACK throws.
ReleasedUnlessRollbackFails(n, exit) == IF exit = "rollback failed" THEN n ELSE n - 1

\* finally { client.release() }: reached however the try statement is left,
\* after COMMIT, after ROLLBACK, or by the error ROLLBACK itself raises.
Released(n, exit) == n - 1

\* Authentication, validation, db.connect() and BEGIN.
UsageRequest(s, headers, bodies) ==
    /\ usage[s].pc = "idle"
    /\ \E authorization \in headers, body \in bodies :
          IF UsageRefusal(authorization, body) # 0
          THEN \* 401 or 400
               /\ usage' = [usage EXCEPT ![s] = UsageIdle]
               /\ checkedOut' = checkedOut
          ELSE \/ /\ usage' = [usage EXCEPT ![s] = [UsageIdle EXCEPT
                                  !.pc = "upsert", !.authorization = authorization,
                                  !.body = body]]
                  /\ checkedOut' = Connect(checkedOut)
               \/ \* db.connect() fails: 500
                  /\ usage' = [usage EXCEPT ![s] = UsageIdle]
                  /\ checkedOut' = checkedOut
               \/ \* BEGIN fails: catch, ROLLBACK, finally, 500
                  /\ usage' = [usage EXCEPT ![s] = UsageIdle]
                  /\ \E exit \in {"rollback", "rollback failed"} :
                        checkedOut' = Released(Connect(checkedOut), exit)
    /\ UNCHANGED <<now, env, dbVars, tokenCache, transferSeq, bill, firstRecorded,
                   txnLog>>

UsageUpsert(s) ==
    LET u == usage[s]
        c == u.body.crm_contact_id.s
    IN  /\ u.pc = "upsert"
        /\ \A o \in UsageSlots \ {s} : ~WritesCustomer(o, c)
        /\ \/ usage' = [usage EXCEPT ![s].pc = "insert",
                  ![s].pendCust = UpsertCustomer(customers, c, u.body.name.s, u.body.email.s)]
           \/ \* the statement fails
              usage' = [usage EXCEPT ![s].pc = "catch"]
        /\ UNCHANGED <<checkedOut, now, env, dbVars, tokenCache, transferSeq, bill, firstRecorded,
                       txnLog>>

UsageInsert(s) ==
    LET u == usage[s]
        k == u.body.idempotency_key.s
        ins == InsertUsage(usage_ledger, k, u.body.crm_contact_id.s,
                           Number(u.body.units).n, FromISO(u.body.occurred_at.s))
    IN  /\ u.pc = "insert"
        /\ \A o \in UsageSlots \ {s} : ~WritesKey(o, k)
        /\ \/ usage' = [usage EXCEPT ![s].pc = "commit",
                  ![s].pendUsage = IF ins = {} THEN NoRow ELSE CHOOSE r \in ins : TRUE,
                  ![s].rows = Cardinality(ins)]
           \/ \* the statement fails
              usage' = [usage EXCEPT ![s].pc = "catch"]
        /\ UNCHANGED <<checkedOut, now, env, dbVars, tokenCache, transferSeq, bill, firstRecorded,
                       txnLog>>

\* COMMIT, then the 200 response; finally: release.
UsageCommit(s) ==
    LET u == usage[s]
    IN  /\ u.pc = "commit"
        /\ \/ /\ customers' = PutCustomer(customers, u.pendCust)
              /\ usage_ledger' = IF u.pendUsage = NoRow THEN usage_ledger
                                  ELSE usage_ledger \cup {u.pendUsage}
              /\ usage' = [usage EXCEPT ![s] = UsageIdle]
              /\ checkedOut' = Released(checkedOut, "commit")
              /\ firstRecorded' =
                    IF UsageResponse(u.rows).recorded /\ ~\E b \in firstRecorded :
                                   b.idempotency_key = u.body.idempotency_key
                    THEN firstRecorded \cup {u.body} ELSE firstRecorded
           \/ \* COMMIT fails
              /\ usage' = [usage EXCEPT ![s].pc = "catch"]
              /\ UNCHANGED <<customers, usage_ledger, firstRecorded, checkedOut>>
        /\ UNCHANGED <<now, env, invoices, invoiceSeq, tokenCache, transferSeq, bill,
                       txnLog>>

\* catch: ROLLBACK, rethrow; finally: release; outer catch: 500.
UsageCatch(s) ==
    /\ usage[s].pc = "catch"
    /\ usage' = [usage EXCEPT ![s] = UsageIdle]
    /\ \E exit \in {"rollback", "rollback failed"} :
          checkedOut' = Released(checkedOut, exit)
    /\ UNCHANGED <<now, env, dbVars, tokenCache, transferSeq, bill, firstRecorded,
                   txnLog>>

(***************************************************************************)
(* Provisioning of a customer (src/setup-customer.js) and the clock.       *)
(***************************************************************************)
FundingHref(c) == "funding-sources/" \o c

SetupRow(table, c, name, email, funding_href) ==
    IF \E r \in table : r.crm_contact_id = c
    THEN LET old == CHOOSE r \in table : r.crm_contact_id = c
         IN  [old EXCEPT !.name = name, !.email = email,
                         !.dwolla_funding_href = funding_href, !.status = "active"]
    ELSE CustomerRow(c, name, email, NoHref, funding_href, "active")

SetupCustomer(c) ==
    /\ \A s \in UsageSlots : ~WritesCustomer(s, c)
    /\ customers' = PutCustomer(customers, SetupRow(customers, c, "n1", "e1", FundingHref(c)))
    /\ UNCHANGED <<checkedOut, now, env, usage_ledger, invoices, invoiceSeq, tokenCache,
                   transferSeq, usage, bill, firstRecorded, txnLog>>

Tick ==
    /\ now < MaxNow
    /\ now' = now + 1
    /\ UNCHANGED <<checkedOut, env, dbVars, tokenCache, transferSeq, usage, bill, firstRecorded,
                   txnLog>>

(***************************************************************************)
(* The transfer initiator: getDwollaToken and dwollaPost (src/server.js).  *)
(* What the processor answers is the input: one answer per attempt.        *)
(***************************************************************************)
NoToken == [token |-> "null", expiresAt |-> 0]

\* One attempt's answers: whether a token request succeeds, whether the POST gets
\* a response, its status, and whether the processor created the transfer.
Answer(tokenOk, net, status, accepted) ==
    [tokenOk |-> tokenOk, net |-> net, status |-> status, accepted |-> accepted]

Created == Answer(TRUE, TRUE, 201, TRUE)
Unauthorized == Answer(TRUE, TRUE, 401, FALSE)
BadRequest == Answer(TRUE, TRUE, 400, FALSE)
ServerError == Answer(TRUE, TRUE, 500, FALSE)
NetworkError == Answer(TRUE, FALSE, 0, FALSE)
LostResponse == Answer(TRUE, FALSE, 0, TRUE)
TokenRefused == Answer(FALSE, FALSE, 0, FALSE)

Answers == {Created, Unauthorized, BadRequest, ServerError, NetworkError,
            LostResponse, TokenRefused}

\* getDwollaToken: the cached token while it is valid, else a token request.
CacheValid(cache, t) == cache.token # "null" /\ cache.expiresAt # 0 /\ t < cache.expiresAt

getDwollaToken(cache, t, tokenOk) ==
    IF CacheValid(cache, t)
    THEN [threw |-> FALSE, cache |-> cache, requested |-> FALSE]
    ELSE IF tokenOk
    THEN [threw |-> FALSE, requested |-> TRUE,
          cache |-> [token |-> "access-token", expiresAt |-> t + TokenLife]]
    ELSE [threw |-> TRUE, cache |-> cache, requested |-> TRUE]

\* Math.min(1000 * Math.pow(2, attempt - 1), 5000)
Backoff(attempt) ==
    LET d == 1000 * (2 ^ (attempt - 1)) IN IF d < 5000 THEN d ELSE 5000

\* What the catch of dwollaPost does with an error thrown inside the try.
CaughtRethrown(attempt, retries) == attempt = retries

\* The loop of dwollaPost from attempt on. st: the cache, the POSTs and token
\* requests sent, the delays waited, the transfers the processor created.
RECURSIVE dwollaPostFrom(_, _, _, _, _)
dwollaPostFrom(attempt, retries, answers, t, st) ==
    IF attempt > retries
    THEN [st EXCEPT !.outcome = "undefined"]
    ELSE
    LET a == answers[attempt]
        tok == getDwollaToken(st.cache, t, a.tokenOk)
        st1 == [st EXCEPT !.cache = tok.cache,
                          !.tokenRequests = @ + (IF tok.requested THEN 1 ELSE 0)]
        st2 == [st1 EXCEPT !.posts = @ + 1,
                           !.created = @ + (IF a.accepted THEN 1 ELSE 0)]
        \* an error thrown inside the try
        caught(stx) == IF CaughtRethrown(attempt, retries)
                       THEN [stx EXCEPT !.outcome = "throw"]
                       ELSE dwollaPostFrom(attempt + 1, retries, answers, t, stx)
    IN  IF tok.threw THEN caught(st1)
        ELSE IF ~a.net THEN caught(st2)
        ELSE IF a.status >= 200 /\ a.status <= 299
        THEN [st2 EXCEPT !.outcome = "return", !.location = st.firstId + st2.created]
        ELSE IF a.status = 401 /\ attempt < retries
        THEN dwollaPostFrom(attempt + 1, retries, answers, t,
                            [st2 EXCEPT !.cache = NoToken, !.delays = Append(@, 1000)])
        ELSE IF a.status >= 400 /\ a.status < 500
        THEN caught(st2)
        ELSE IF attempt < retries
        THEN dwollaPostFrom(attempt + 1, retries, answers, t,
                            [st2 EXCEPT !.delays = Append(@, Backoff(attempt))])
        ELSE caught(st2)

\* dwollaPost without its loop: one attempt, whatever retries is.
dwollaPostOnce(cache, t, lastId, retries, answers) ==
    dwollaPostFrom(1, 1, answers, t,
        [outcome |-> "running", location |-> NULL, cache |-> cache, posts |-> 0,
         tokenRequests |-> 0, delays |-> <<>>, created |-> 0, firstId |-> lastId])

\* dwollaPost(path, body, retries) with the cache as it is at time t, the
\* processor having created lastId transfers so far.
dwollaPost(cache, t, lastId, retries, answers) ==
    dwollaPostFrom(1, retries, answers, t,
        [outcome |-> "running", location |-> NULL, cache |-> cache, posts |-> 0,
         tokenRequests |-> 0, delays |-> <<>>, created |-> 0, firstId |-> lastId])

\* The answers of a processor that accepts or rejects, and answers every request.
CoreAnswers == [1 .. DefaultRetries -> {Created, BadRequest, ServerError}]

(***************************************************************************)
(* The weekly billing job, POST /bill/week (src/server.js).                *)
(***************************************************************************)
RECURSIVE SumUnits(_)
SumUnits(rows) ==
    IF rows = {} THEN 0
    ELSE LET r == CHOOSE x \in rows : TRUE IN r.units + SumUnits(rows \ {r})

\* A window without its lower bound: all usage before the end of the period.
BeforeWindowEnd(r, startISO, endISO) == r.occurred_at < FromISO(endISO)

\* occurred_at >= $1 AND occurred_at < $2, the bounds passed as ISO strings.
InWindow(r, startISO, endISO) ==
    r.occurred_at >= FromISO(startISO) /\ r.occurred_at < FromISO(endISO)

\* The usage_totals query without its invoice_id IS NULL condition.
UnbilledOrBilled(ledger, startISO, endISO) ==
    {r \in ledger : InWindow(r, startISO, endISO)}

\* WHERE ... AND invoice_id IS NULL of the usage_totals query.
Unbilled(ledger, startISO, endISO) ==
    {r \in ledger : InWindow(r, startISO, endISO) /\ r.invoice_id = NULL}

\* The customers query without SUM ... GROUP BY: the units of one usage row.
BillRowOfOneRecord(c, ledger, startISO, endISO) ==
    LET mine == {r \in Unbilled(ledger, startISO, endISO) :
                    r.crm_contact_id = c.crm_contact_id}
    IN  [crm_contact_id |-> c.crm_contact_id,
         dwolla_funding_href |-> c.dwolla_funding_href,
         units |-> IF mine = {} THEN 0 ELSE (CHOOSE r \in mine : TRUE).units,
         keys |-> {r.idempotency_key : r \in mine}]

\* The customers query summing the customer's usage of the window whether or
\* not an invoice has claimed it.
BillRowOfClaimedToo(c, ledger, startISO, endISO) ==
    LET mine == {r \in UnbilledOrBilled(ledger, startISO, endISO) :
                    r.crm_contact_id = c.crm_contact_id}
    IN  [crm_contact_id |-> c.crm_contact_id,
         dwolla_funding_href |-> c.dwolla_funding_href,
         units |-> SumUnits(mine),
         keys |-> {r.idempotency_key : r \in mine}]

\* One row of the customers query; keys is history: the usage rows summed.
BillRow(c, ledger, startISO, endISO) ==
    LET mine == {r \in Unbilled(ledger, startISO, endISO) :
                    r.crm_contact_id = c.crm_contact_id}
    IN  [crm_contact_id |-> c.crm_contact_id,
         dwolla_funding_href |-> c.dwolla_funding_href,
         units |-> SumUnits(mine),
         keys |-> {r.idempotency_key : r \in mine}]

\* The customers query without its conditions on the customer.
BillableCustomersOfAnyStatus(custs, ledger, startISO, endISO) ==
    {BillRow(c, ledger, startISO, endISO) :
        c \in {x \in custs :
                  SumUnits({r \in Unbilled(ledger, startISO, endISO) :
                              r.crm_contact_id = x.crm_contact_id}) > 0}}

\* The customers query: active customers with a funding source and unbilled
\* usage in the window.
BillableCustomers(custs, ledger, startISO, endISO) ==
    {BillRow(c, ledger, startISO, endISO) :
        c \in {x \in custs : /\ x.status = "active"
                             /\ x.dwolla_funding_href # NoHref
                             /\ SumUnits({r \in Unbilled(ledger, startISO, endISO) :
                                            r.crm_contact_id = x.crm_contact_id}) > 0}}

\* The orders in which a query without ORDER BY can return its rows.
Orderings(S) ==
    {q \in [1 .. Cardinality(S) -> S] : \A i, j \in DOMAIN q : i # j => q[i] # q[j]}

\* Math.round(Number(customer.units) * PRICE_PER_UNIT_CENTS)
AmountCents(units) == MathRound(units * PRICE_PER_UNIT_CENTS, UnitScale)

\* The claim UPDATE without its invoice_id IS NULL condition.
ClaimTargetsAll(ledger, c, startISO, endISO) ==
    {r \in ledger : r.crm_contact_id = c /\ InWindow(r, startISO, endISO)}

\* The claim UPDATE without its conditions on occurred_at.
ClaimTargetsAnyTime(ledger, c, startISO, endISO) ==
    {r \in ledger : r.crm_contact_id = c /\ r.invoice_id = NULL}

\* UPDATE usage_ledger SET invoice_id = $1 WHERE crm_contact_id = $2 AND
\* occurred_at >= $3 AND occurred_at < $4 AND invoice_id IS NULL: the rows it writes.
ClaimTargets(ledger, c, startISO, endISO) ==
    {r \in ledger : /\ r.crm_contact_id = c
                    /\ InWindow(r, startISO, endISO)
                    /\ r.invoice_id = NULL}

NoResults ==
    [total |-> 0, successful |-> 0, failed |-> 0, skipped |-> 0,
     total_amount_cents |-> 0, errors |-> <<>>]

BillIdle ==
    [pc |-> "idle", authorization |-> "", start |-> 0, end |-> 0,
     customers |-> <<>>, i |-> 0,
     results |-> NoResults, amountCents |-> 0, location |-> NULL, error |-> "",
     invoiceId |-> NULL, pendInvoice |-> NoRow, pendClaims |-> {}, pre |-> {},
     status |-> 0]

\* A request that has been answered: its locals are gone.
BillDone(status) == [BillIdle EXCEPT !.pc = "done", !.status = status]

\* The locals of one customer's transaction, reset at the end of the iteration.
EndAttempt(b) ==
    [b EXCEPT !.pc = "loop", !.i = @ + 1, !.amountCents = 0, !.location = NULL,
              !.error = "", !.invoiceId = NULL, !.pendInvoice = NoRow,
              !.pendClaims = {}, !.pre = {}]

\* Row locks: the open transaction of run r has written usage row k.
ClaimsKey(r, k) == k \in bill[r].pendClaims

\* Authentication, the window, the customers query.
BillStart(r, headers) ==
    /\ bill[r].pc = "idle"
    /\ \E authorization \in headers :
          IF authorization # "Bearer admin"
          THEN bill' = [bill EXCEPT ![r] = BillDone(401)]
          ELSE LET end == StartOfWeek(now)
                   start == end - WeekLen
                   found == BillableCustomers(customers, usage_ledger,
                                              ToISO(start), ToISO(end))
               IN  \/ \E rows \in Orderings(found) :
                        bill' = [bill EXCEPT ![r] = [BillIdle EXCEPT
                                   !.pc = "loop", !.authorization = authorization,
                                   !.start = start, !.end = end,
                                   !.customers = rows, !.i = 1,
                                   !.results = [NoResults EXCEPT !.total = Len(rows)]]]
                   \/ \* the query fails: outer catch
                      bill' = [bill EXCEPT ![r] = BillDone(500)]
    /\ UNCHANGED <<checkedOut, now, env, dbVars, tokenCache, transferSeq, usage, firstRecorded, txnLog>>

\* A transaction that inserts the invoice before it requests the transfer.
AfterBeginInsert == "insert"

\* Where the transaction goes after BEGIN: to the transfer request.
AfterBegin == "transfer"

\* The head of the loop: the amount, the skip, db.connect() and BEGIN; after the
\* last customer, the response.
BillNext(r) ==
    LET b == bill[r]
    IN  /\ b.pc = "loop"
        /\ IF b.i > Len(b.customers)
           THEN \* res.status(200).json({success, period, results, duration})
                /\ bill' = [bill EXCEPT ![r] = BillDone(200)]
                /\ checkedOut' = checkedOut
           ELSE LET amountCents == AmountCents(b.customers[b.i].units)
                IN  IF amountCents <= 0
                    THEN /\ bill' = [bill EXCEPT ![r].i = @ + 1,
                                                 ![r].results.skipped = @ + 1]
                         /\ checkedOut' = checkedOut
                    ELSE \/ /\ bill' = [bill EXCEPT ![r].pc = AfterBegin,
                                   ![r].amountCents = amountCents,
                                   ![r].location = NULL,
                                   ![r].error = "",
                                   ![r].pre = {u \in usage_ledger :
                                      u.crm_contact_id = b.customers[b.i].crm_contact_id}]
                            /\ checkedOut' = Connect(checkedOut)
                         \/ \* BEGIN fails
                            /\ bill' = [bill EXCEPT ![r].pc = "catch",
                                   ![r].amountCents = amountCents,
                                   ![r].location = NULL,
                                   ![r].error = "datastore",
                                   ![r].pre = {u \in usage_ledger :
                                      u.crm_contact_id = b.customers[b.i].crm_contact_id}]
                            /\ checkedOut' = Connect(checkedOut)
                         \/ \* db.connect() fails: outer catch
                            /\ bill' = [bill EXCEPT ![r] = BillDone(500)]
                            /\ checkedOut' = checkedOut
        /\ UNCHANGED <<now, env, dbVars, tokenCache, transferSeq, usage, firstRecorded, txnLog>>

\* A transaction that goes on whatever dwollaPost did.
AfterTransferGoOn(outcome) == "insert"

\* A failed dwollaPost taken for a success with nothing to write.
AfterTransferCommit(outcome) == IF outcome = "return" THEN "insert" ELSE "commit"

\* Where the transaction goes after dwollaPost.
AfterTransfer(outcome) == IF outcome = "return" THEN "insert" ELSE "catch"

\* await dwollaPost('transfers', ...)
BillTransfer(r, answerSeqs) ==
    LET b == bill[r]
    IN  /\ b.pc = "transfer"
        /\ \E answers \in answerSeqs :
              LET out == dwollaPost(tokenCache, now, transferSeq, DefaultRetries, answers)
              IN  /\ tokenCache' = out.cache
                  /\ transferSeq' = transferSeq + out.created
                  /\ bill' = [bill EXCEPT ![r].pc = AfterTransfer(out.outcome),
                                ![r].location = out.location,
                                ![r].error = IF out.outcome = "return" THEN ""
                                             ELSE "Dwolla API error"]
        /\ UNCHANGED <<checkedOut, now, env, dbVars, usage, firstRecorded, txnLog>>

\* The transfer reference the processor returns for its transfer number id.
Href(id) == "transfers/" \o ToString(id)

\* The INSERT sent outside the transaction: the row is committed at once.
InsertInvoiceAutocommit(table, row) == [committed |-> table \cup {row}, pending |-> NoRow]

\* INSERT INTO invoices ... through the client of the open transaction: the row
\* is the transaction's own until COMMIT.
InsertInvoice(table, row) == [committed |-> table, pending |-> row]

\* INSERT INTO invoices(...) VALUES ($1, $2, $3, $4, $5) RETURNING id
BillInsert(r) ==
    LET b == bill[r]
        cust == b.customers[b.i]
        id == invoiceSeq + 1
        row == InvoiceRow(id, cust.crm_contact_id, FromISO(ToISO(b.start)),
                          FromISO(ToISO(b.end)), b.amountCents, Href(b.location), now)
        out == InsertInvoice(invoices, row)
    IN  /\ b.pc = "insert"
        /\ \/ /\ invoiceSeq' = id
              /\ invoices' = out.committed
              /\ bill' = [bill EXCEPT ![r].pc = "update", ![r].invoiceId = id,
                                      ![r].pendInvoice = out.pending]
              /\ txnLog' = txnLog \cup
                    {[id |-> id, run |-> r, crm_contact_id |-> cust.crm_contact_id,
                      summed |-> cust.keys]}
           \/ \* the statement fails
              /\ bill' = [bill EXCEPT ![r].pc = "catch", ![r].error = "datastore"]
              /\ UNCHANGED <<invoiceSeq, invoices, txnLog>>
        /\ UNCHANGED <<checkedOut, now, env, customers, usage_ledger, tokenCache, transferSeq,
                       usage, firstRecorded>>

\* UPDATE usage_ledger SET invoice_id = $1 WHERE ...: it waits while another open
\* transaction holds one of the rows, and then sees that transaction's write.
BillUpdate(r) ==
    LET b == bill[r]
        cust == b.customers[b.i]
        targets == ClaimTargets(usage_ledger, cust.crm_contact_id,
                                ToISO(b.start), ToISO(b.end))
    IN  /\ b.pc = "update"
        /\ \A o \in Runs \ {r} : \A u \in targets : ~ClaimsKey(o, u.idempotency_key)
        /\ \/ bill' = [bill EXCEPT ![r].pc = "commit",
                         ![r].pendClaims = {u.idempotency_key : u \in targets}]
           \/ \* the statement fails
              bill' = [bill EXCEPT ![r].pc = "catch", ![r].error = "datastore"]
        /\ UNCHANGED <<checkedOut, now, env, dbVars, tokenCache, transferSeq, usage, firstRecorded, txnLog>>

\* The rows of the ledger once the claims of a transaction are committed.
ApplyClaims(ledger, keys, id) ==
    {IF u.idempotency_key \in keys THEN [u EXCEPT !.invoice_id = id] ELSE u :
        u \in ledger}

\* COMMIT, then the counters; finally: release.
BillCommit(r) ==
    LET b == bill[r]
    IN  /\ b.pc = "commit"
        /\ \/ /\ invoices' = IF b.pendInvoice = NoRow THEN invoices
                             ELSE invoices \cup {b.pendInvoice}
              /\ usage_ledger' = ApplyClaims(usage_ledger, b.pendClaims, b.invoiceId)
              /\ bill' = [bill EXCEPT ![r] = [EndAttempt(b) EXCEPT
                            !.results.successful = @ + 1,
                            !.results.total_amount_cents = @ + b.amountCents]]
              /\ checkedOut' = Released(checkedOut, "commit")
           \/ \* COMMIT fails
              /\ bill' = [bill EXCEPT ![r].pc = "catch", ![r].error = "datastore"]
              /\ UNCHANGED <<invoices, usage_ledger, checkedOut>>
        /\ UNCHANGED <<now, env, customers, invoiceSeq, tokenCache, transferSeq, usage,
                       firstRecorded, txnLog>>

\* The failed counter without the entry of the error list.
FailedUnlisted(results, c, message) == [results EXCEPT !.failed = @ + 1]

\* results.failed++; results.errors.push({crm_contact_id, error: error.message})
Failed(results, c, message) ==
    [results EXCEPT !.failed = @ + 1,
                    !.errors = Append(@, [crm_contact_id |-> c, error |-> message])]

\* catch: ROLLBACK, the failed counter and the error list; finally: release.
BillCatch(r) ==
    LET b == bill[r]
    IN  /\ b.pc = "catch"
        /\ \/ /\ bill' = [bill EXCEPT ![r] = [EndAttempt(b) EXCEPT
                            !.results = Failed(@, b.customers[b.i].crm_contact_id,
                                               b.error)]]
              /\ checkedOut' = Released(checkedOut, "rollback")
           \/ \* ROLLBACK fails: outer catch, 500; the server ends the transaction
              /\ bill' = [bill EXCEPT ![r] = BillDone(500)]
              /\ checkedOut' = Released(checkedOut, "rollback failed")
        /\ txnLog' = {e \in txnLog : e.id # b.invoiceId} \cup
              (IF b.error = "Dwolla API error"
               THEN {[id |-> NULL, run |-> r,
                      crm_contact_id |-> b.customers[b.i].crm_contact_id,
                      summed |-> b.customers[b.i].keys]}
               ELSE {})
        /\ UNCHANGED <<now, env, dbVars, tokenCache, transferSeq, usage, firstRecorded>>

(***************************************************************************)
(* The Dwolla webhook, POST /dwolla/webhook (src/webhooks/dwolla-webhook.js) *)
(***************************************************************************)
\* hmac.digest('hex') of the raw body under a secret: 64 hex digits.
HmacHex(secret, body) == [len |-> 64, key |-> secret, of |-> body]

NoSignature == [len |-> 0, key |-> "", of |-> NoBody]

\* crypto.timingSafeEqual: it throws on buffers of different lengths.
TimingSafeEqual(a, b) ==
    IF a.len # b.len THEN "throw" ELSE IF a = b THEN "true" ELSE "false"

verifyDwollaWebhookSignature(req, secret) ==
    IF secret = "" THEN "true"
    ELSE IF req.signature = NoSignature THEN "false"
    ELSE TimingSafeEqual(req.signature, HmacHex(secret, req.body))

\* The raw body of a notification: whether it parses, its topic and its
\* _links.resource.href.
Event(json, topic, href) == [json |-> json, topic |-> topic, href |-> href]

Request(signature, body) == [signature |-> signature, body |-> body]

\* The UPDATE without its status != $target condition.
SetStatusAlways(table, href, target, t) ==
    {IF i.dwolla_transfer_href = href
     THEN [i EXCEPT !.status = target, !.updated_at = t] ELSE i : i \in table}

\* The UPDATE without its dwolla_transfer_href = $1 condition.
SetStatusOfAnyTransfer(table, href, target, t) ==
    {IF i.status # target
     THEN [i EXCEPT !.status = target, !.updated_at = t] ELSE i : i \in table}

\* A handler that deletes the invoice of a failed transfer instead of marking it.
SetStatusOrDelete(table, href, target, t) ==
    IF target = "failed"
    THEN {i \in table : i.dwolla_transfer_href # href}
    ELSE {IF i.dwolla_transfer_href = href /\ i.status # target
          THEN [i EXCEPT !.status = target, !.updated_at = t] ELSE i : i \in table}

\* An upsert in place of the UPDATE: a notification about a transfer no invoice
\* records inserts an invoice for it.
SetStatusOrInsert(table, href, target, t) ==
    IF \E i \in table : i.dwolla_transfer_href = href
    THEN {IF i.dwolla_transfer_href = href /\ i.status # target
          THEN [i EXCEPT !.status = target, !.updated_at = t] ELSE i : i \in table}
    ELSE table \cup {[InvoiceRow(NULL, "", 0, 0, 0, href, t) EXCEPT !.status = target]}

\* UPDATE invoices SET status = $target, updated_at = now()
\* WHERE dwolla_transfer_href = $1 AND status != $target
SetStatus(table, href, target, t) ==
    {IF i.dwolla_transfer_href = href /\ i.status # target
     THEN [i EXCEPT !.status = target, !.updated_at = t] ELSE i : i \in table}

\* What the handler does with a request, the invoices being table at time t:
\* the invoices it leaves, the status it answers with, the error it logs.
\* dbFails: the UPDATE statement fails.
Outcome(table, status, error) == [invoices |-> table, status |-> status, error |-> error]

DwollaWebhook(req, table, t, dbFails) ==
    LET verified == verifyDwollaWebhookSignature(req, env.DWOLLA_WEBHOOK_SECRET)
        evt == req.body
    IN  IF verified = "throw" THEN Outcome(table, 200, "signature")
        ELSE IF verified = "false" THEN Outcome(table, 401, "")
        ELSE IF ~evt.json THEN Outcome(table, 200, "parse")
        ELSE IF Falsy(evt.href) \/ Falsy(evt.topic) THEN Outcome(table, 200, "")
        ELSE IF evt.topic.s = "transfer_completed"
        THEN IF dbFails THEN Outcome(table, 200, "datastore")
             ELSE Outcome(SetStatus(table, evt.href.s, "completed", t), 200, "")
        ELSE IF evt.topic.s = "transfer_failed"
        THEN IF dbFails THEN Outcome(table, 200, "datastore")
             ELSE Outcome(SetStatus(table, evt.href.s, "failed", t), 200, "")
        ELSE Outcome(table, 200, "")

Deliver(requests) ==
    /\ \E req \in requests, dbFails \in BOOLEAN :
          invoices' = DwollaWebhook(req, invoices, now, dbFails).invoices
    /\ UNCHANGED <<checkedOut, now, env, customers, usage_ledger, invoiceSeq, tokenCache,
                   transferSeq, usage, bill, firstRecorded, txnLog>>

\* Authentic notifications about the transfers the processor has created.
CoreDeliveries ==
    {Request(HmacHex(env.DWOLLA_WEBHOOK_SECRET, evt), evt) :
        evt \in {Event(TRUE, JsStr(topic), JsStr(Href(id))) :
                    topic \in {"transfer_completed", "transfer_failed"},
                    id \in 1 .. transferSeq}}

(***************************************************************************)
(* The system.                                                             *)
(***************************************************************************)
Init ==
    /\ now = 2 * WeekLen - 1
    /\ env = [GHL_BEARER |-> "ghl-secret", DWOLLA_WEBHOOK_SECRET |-> "whsec"]
    /\ customers = {}
    /\ usage_ledger = {}
    /\ invoices = {}
    /\ invoiceSeq = 0
    /\ tokenCache = NoToken
    /\ transferSeq = 0
    /\ usage = [s \in UsageSlots |-> UsageIdle]
    /\ bill = [r \in Runs |-> BillIdle]
    /\ firstRecorded = {}
    /\ txnLog = {}
    /\ checkedOut = 0

\* The billing job is triggered as a singleton: a run starts after the runs
\* before it have answered.
Earlier(r) == IF r = "r2" THEN {"r1"} ELSE {}
Singleton(r) == \A o \in Earlier(r) : bill[o].pc = "done"

Next ==
    \/ \E s \in {"u1"} :
          \/ UsageRequest(s, CoreHeaders, CoreBodies)
          \/ UsageUpsert(s)
          \/ UsageInsert(s)
          \/ UsageCommit(s)
          \/ UsageCatch(s)
    \/ \E c \in {"c1"} : SetupCustomer(c)
    \/ Tick
    \/ \E r \in Runs :
          \/ Singleton(r) /\ BillStart(r, {"Bearer admin"})
          \/ BillNext(r)
          \/ BillTransfer(r, CoreAnswers)
          \/ BillInsert(r)
          \/ BillUpdate(r)
          \/ BillCommit(r)
          \/ BillCatch(r)
    \/ Deliver(CoreDeliveries)

Spec == Init /\ [][Next]_vars

(***************************************************************************)
(* The usage webhook alone, under concurrent requests that reuse a key     *)
(* with another customer, quantity or time, and requests it refuses.       *)
(***************************************************************************)
\* Bodies with one field missing or malformed, the others as in a recorded
\* request.
InvalidBodies ==
    LET c == JsStr("c1")
        n == JsStr("n1")
        u == JsNum(1000)
        t == JsStr(ToISO(WeekLen))
        k == JsStr("k1")
    IN  {Body(x, n, u, t, k) : x \in {JsUndefined, JsNull, JsStr(""), JsNum(1000)}}
        \cup
        {Body(c, n, u, t, x) : x \in {JsUndefined, JsNull, JsStr(""), JsNum(1000)}}
        \cup
        {Body(c, n, x, t, k) : x \in {JsUndefined, JsNull, JsStr("abc"), JsStr("-1"),
                                      JsStr("0"), JsNum(0), JsNum(-1000)}}
        \cup
        {Body(c, n, u, x, k) : x \in {JsUndefined, JsNull, JsStr(""),
                                      JsStr("yesterday")}}

IngestBodies ==
    {Body(JsStr(c), JsStr("n1"), u, JsStr(ToISO(t)), JsStr("k1")) :
        c \in Customers, u \in {JsStr("2"), JsNum(1000)}, t \in OccurTimes}
    \cup
    {Body(JsStr("c2"), JsStr("n2"), JsNum(500), JsStr(ToISO(WeekLen)), JsStr("k2"))}
    \cup InvalidBodies

IngestHeaders == {"Bearer ghl-secret", "Bearer guess"}

NextIngest ==
    \/ \E s \in UsageSlots :
          \/ UsageRequest(s, IngestHeaders, IngestBodies)
          \/ UsageUpsert(s)
          \/ UsageInsert(s)
          \/ UsageCommit(s)
          \/ UsageCatch(s)
    \/ \E c \in Customers : SetupCustomer(c)

SpecIngest == Init /\ [][NextIngest]_vars

(***************************************************************************)
(* Two billing requests in flight at once, over usage of one customer in   *)
(* last week's window, with usage requests and notifications interleaved.  *)
(***************************************************************************)
OverlapBodies ==
    {Body(JsStr("c1"), JsStr("n1"), JsStr("2"), JsStr(ToISO(WeekLen - 1)), JsStr("k1")),
     Body(JsStr("c1"), JsStr("n1"), JsNum(1000), JsStr(ToISO(WeekLen - 1)), JsStr("k2"))}

\* The processor accepts the transfer at once, or rejects it.
OverlapAnswers == {[a \in 1 .. DefaultRetries |-> Created],
                   [a \in 1 .. DefaultRetries |-> BadRequest]}

NextOverlap ==
    \/ \E s \in {"u1"} :
          \/ UsageRequest(s, CoreHeaders, OverlapBodies)
          \/ UsageUpsert(s)
          \/ UsageInsert(s)
          \/ UsageCommit(s)
          \/ UsageCatch(s)
    \/ \E c \in {"c1"} : SetupCustomer(c)
    \/ \E r \in Runs :
          \/ BillStart(r, {"Bearer admin"})
          \/ BillNext(r)
          \/ BillTransfer(r, OverlapAnswers)
          \/ BillInsert(r)
          \/ BillUpdate(r)
          \/ BillCommit(r)
          \/ BillCatch(r)
    \/ Deliver(CoreDeliveries)

SpecOverlap == Init /\ [][NextOverlap]_vars

(***************************************************************************)
(* One billing request over last week's usage of two customers.            *)
(***************************************************************************)
TwoCustomerBodies ==
    {Body(JsStr("c1"), JsStr("n1"), JsStr("2"), JsStr(ToISO(WeekLen - 1)), JsStr("k1")),
     Body(JsStr("c2"), JsStr("n1"), JsNum(1000), JsStr(ToISO(WeekLen - 1)), JsStr("k2"))}

NextTwoCustomers ==
    \/ \E s \in {"u1"} :
          \/ UsageRequest(s, CoreHeaders, TwoCustomerBodies)
          \/ UsageUpsert(s)
          \/ UsageInsert(s)
          \/ UsageCommit(s)
          \/ UsageCatch(s)
    \/ \E c \in Customers : SetupCustomer(c)
    \/ \E r \in {"r1"} :
          \/ BillStart(r, {"Bearer admin"})
          \/ BillNext(r)
          \/ BillTransfer(r, OverlapAnswers)
          \/ BillInsert(r)
          \/ BillUpdate(r)
          \/ BillCommit(r)
          \/ BillCatch(r)

SpecTwoCustomers == Init /\ [][NextTwoCustomers]_vars

(***************************************************************************)
(* The Dwolla webhook under every kind of request, in a deployment with    *)
(* DWOLLA_WEBHOOK_SECRET set and in one without it.                        *)
(***************************************************************************)
\* The secret the processor signs its notifications with.
ProcessorSecret == "whsec"

\* A signature of a length other than that of a hex digest.
ShortSignature == [len |-> 10, key |-> "", of |-> NoBody]

\* Notifications about the transfers the processor created and about one it
\* did not, of the two topics and another one, and bodies without a topic,
\* without a resource reference, and that do not parse.
AnyEvents ==
    {Event(TRUE, JsStr(topic), JsStr(Href(id))) :
        topic \in {"transfer_completed", "transfer_failed", "customer_created"},
        id \in 1 .. transferSeq + 1}
    \cup
    {Event(TRUE, JsUndefined, JsStr(Href(1))),
     Event(TRUE, JsStr("transfer_completed"), JsUndefined),
     Event(FALSE, JsUndefined, JsUndefined)}

\* Each signed by the processor, unsigned, signed with another secret, or with
\* a signature of another length.
AnyDeliveries ==
    UNION {{Request(sig, evt) :
               sig \in {HmacHex(ProcessorSecret, evt), NoSignature,
                        HmacHex("guess", evt), ShortSignature}} :
           evt \in AnyEvents}

InitWebhook ==
    /\ now = 2 * WeekLen - 1
    /\ env \in {[GHL_BEARER |-> "ghl-secret", DWOLLA_WEBHOOK_SECRET |-> secret] :
                    secret \in {ProcessorSecret, ""}}
    /\ customers = {}
    /\ usage_ledger = {}
    /\ invoices = {}
    /\ invoiceSeq = 0
    /\ tokenCache = NoToken
    /\ transferSeq = 0
    /\ usage = [s \in UsageSlots |-> UsageIdle]
    /\ bill = [r \in Runs |-> BillIdle]
    /\ firstRecorded = {}
    /\ txnLog = {}
    /\ checkedOut = 0

NextWebhook ==
    \/ \E s \in {"u1"} :
          \/ UsageRequest(s, CoreHeaders, OverlapBodies)
          \/ UsageUpsert(s)
          \/ UsageInsert(s)
          \/ UsageCommit(s)
          \/ UsageCatch(s)
    \/ \E c \in {"c1"} : SetupCustomer(c)
    \/ Tick
    \/ \E r \in {"r1"} :
          \/ BillStart(r, {"Bearer admin"})
          \/ BillNext(r)
          \/ BillTransfer(r, OverlapAnswers)
          \/ BillInsert(r)
          \/ BillUpdate(r)
          \/ BillCommit(r)
          \/ BillCatch(r)
    \/ Deliver(AnyDeliveries)

SpecWebhook == InitWebhook /\ [][NextWebhook]_vars

(***************************************************************************)
(* Both endpoints under requests with and without the credential, the body *)
(* of a usage request well formed or not.                                  *)
(***************************************************************************)
\* The credential of each endpoint, another one, and no Authorization header.
AuthHeaders == {"Bearer ghl-secret", "Bearer admin", "Bearer guess", "undefined"}

AuthBodies ==
    OverlapBodies \cup
    {Body(JsStr("c1"), JsStr("n1"), JsStr("-1"), JsStr(ToISO(WeekLen - 1)), JsStr("k1"))}

NextAuth ==
    \/ \E s \in {"u1"} :
          \/ UsageRequest(s, AuthHeaders, AuthBodies)
          \/ UsageUpsert(s)
          \/ UsageInsert(s)
          \/ UsageCommit(s)
          \/ UsageCatch(s)
    \/ \E c \in {"c1"} : SetupCustomer(c)
    \/ \E r \in Runs :
          \/ Singleton(r) /\ BillStart(r, AuthHeaders)
          \/ BillNext(r)
          \/ BillTransfer(r, OverlapAnswers)
          \/ BillInsert(r)
          \/ BillUpdate(r)
          \/ BillCommit(r)
          \/ BillCatch(r)

SpecAuth == Init /\ [][NextAuth]_vars

(***************************************************************************)
(* One billing request over two customers, one of them with usage too      *)
(* small to be charged a cent.                                             *)
(***************************************************************************)
SummaryBodies ==
    {Body(JsStr("c1"), JsStr("n1"), JsStr("2"), JsStr(ToISO(WeekLen - 1)), JsStr("k1"))}
    \cup
    {Body(JsStr("c2"), JsStr("n1"), JsNum(u), JsStr(ToISO(WeekLen - 1)), JsStr("k2")) :
        u \in {1, 1000}}

NextSummary ==
    \/ \E s \in {"u1"} :
          \/ UsageRequest(s, CoreHeaders, SummaryBodies)
          \/ UsageUpsert(s)
          \/ UsageInsert(s)
          \/ UsageCommit(s)
          \/ UsageCatch(s)
    \/ \E c \in Customers : SetupCustomer(c)
    \/ \E r \in {"r1"} :
          \/ BillStart(r, {"Bearer admin"})
          \/ BillNext(r)
          \/ BillTransfer(r, OverlapAnswers)
          \/ BillInsert(r)
          \/ BillUpdate(r)
          \/ BillCommit(r)
          \/ BillCatch(r)

SpecSummary == Init /\ [][NextSummary]_vars

(***************************************************************************)
(* One billing request against a processor that answers each attempt of a  *)
(* transfer request in any of the ways it can, the clock running so that   *)
(* the cached credential expires.                                          *)
(***************************************************************************)
AllAnswers == [1 .. DefaultRetries -> Answers]

NextTransfer ==
    \/ \E s \in {"u1"} :
          \/ UsageRequest(s, CoreHeaders, OverlapBodies)
          \/ UsageUpsert(s)
          \/ UsageInsert(s)
          \/ UsageCommit(s)
          \/ UsageCatch(s)
    \/ \E c \in {"c1"} : SetupCustomer(c)
    \/ Tick
    \/ \E r \in {"r1"} :
          \/ BillStart(r, {"Bearer admin"})
          \/ BillNext(r)
          \/ BillTransfer(r, AllAnswers)
          \/ BillInsert(r)
          \/ BillUpdate(r)
          \/ BillCommit(r)
          \/ BillCatch(r)

SpecTransfer == Init /\ [][NextTransfer]_vars

(***************************************************************************)
(* Properties.                                                             *)
(***************************************************************************)
\* The invoices a step makes visible, and the usage rows written under a key.
NewInvoices(inv, inv2) == {i \in inv2 : ~\E j \in inv : j.id = i.id}
RowsOf(ledger, k) == {u \in ledger : u.idempotency_key = k}
ClaimedKeys(ledger) == {u.idempotency_key : u \in {x \in ledger : x.invoice_id # NULL}}
LogOf(id) == {e \in txnLog : e.id = id}

\* C1: with billing runs executed one at a time, a usage row whose invoice_id
\* is set keeps it through every later step, a new invoice's amount is the sum
\* of rows that are all unclaimed when it becomes visible, and so a run creates
\* no invoice for a customer whose usage in the window is all claimed.
NoDoubleBilling ==
    [][/\ \A u \in usage_ledger : u.invoice_id # NULL => u \in usage_ledger'
       /\ \A i \in NewInvoices(invoices, invoices') : \A e \in LogOf(i.id) :
             /\ e.summed # {}
             /\ e.summed \cap ClaimedKeys(usage_ledger) = {}
             /\ \A k \in e.summed : \E u \in RowsOf(usage_ledger, k) :
                   /\ u.crm_contact_id = i.crm_contact_id
                   /\ u.occurred_at >= i.period_start
                   /\ u.occurred_at < i.period_end]_vars

\* C1: the second run is about to commit an invoice for a customer who has
\* another usage row in the same window that the first run's invoice claimed.
SecondRunOverClaimedUsage ==
    /\ bill["r2"].pc = "commit"
    /\ bill["r2"].pendInvoice # NoRow
    /\ \E u \in usage_ledger :
          /\ u.invoice_id # NULL
          /\ u.crm_contact_id = bill["r2"].customers[bill["r2"].i].crm_contact_id
          /\ u.occurred_at >= bill["r2"].start
          /\ u.occurred_at < bill["r2"].end

\* The step that ends the attempt of run r for one customer.
AttemptEnds(r) ==
    /\ bill[r].pc \in {"transfer", "insert", "update", "commit", "catch"}
    /\ bill'[r].pc \in {"loop", "done"}

\* C4: when the attempt of a customer whose transfer call failed ends, no
\* invoice of that attempt is in the table, and the customer's usage rows are
\* the rows of before the attempt and the rows recorded since, unclaimed.
TransferFailureLeavesNoTrace ==
    [][\A r \in Runs :
          (AttemptEnds(r) /\ bill[r].error = "Dwolla API error") =>
             LET c == bill[r].customers[bill[r].i].crm_contact_id
             IN  /\ NewInvoices(invoices, invoices') = {}
                 /\ ~\E i \in invoices' : i.id = bill[r].invoiceId
                 /\ ~\E i \in invoices' : \E e \in LogOf(i.id) :
                       e.run = r /\ e.crm_contact_id = c
                 /\ bill[r].pre \subseteq usage_ledger'
                 /\ \A u \in usage_ledger' :
                       (u.crm_contact_id = c /\ u \notin bill[r].pre) =>
                          u.invoice_id = NULL]_vars

\* C4: a run has ended an attempt whose transfer call failed, and the customer
\* had usage recorded.
TransferFailed ==
    \E r \in Runs :
       /\ bill[r].pc = "loop"
       /\ \E n \in DOMAIN bill[r].results.errors :
             /\ bill[r].results.errors[n].error = "Dwolla API error"
             /\ \E u \in usage_ledger :
                   u.crm_contact_id = bill[r].results.errors[n].crm_contact_id

\* C5: the amount of every invoice is the rounded price of the units of the
\* usage rows that reference it.
AmountMatchesClaimedUsage ==
    \A i \in invoices :
       i.amount_cents =
          AmountCents(SumUnits({u \in usage_ledger : u.invoice_id = i.id}))

\* C6: the status of an invoice changes only from initiated.
StatusLeavesOnlyInitiated ==
    [][\A i \in invoices : \A j \in invoices' :
          (i.id = j.id /\ i.status # j.status) => i.status = "initiated"]_vars

\* The authentic notification of a topic about transfer number id.
Notification(topic, id) ==
    LET evt == Event(TRUE, JsStr(topic), JsStr(Href(id)))
    IN  Request(HmacHex(env.DWOLLA_WEBHOOK_SECRET, evt), evt)

\* C7: a transfer_completed notification delivered again, now or later, after
\* it has been processed once writes nothing, logs no error and is answered 200;
\* processed once, it leaves the invoice of an initiated transfer completed.
CompletedIsIdempotent ==
    \A id \in 1 .. transferSeq :
       LET req == Notification("transfer_completed", id)
           once == DwollaWebhook(req, invoices, now, FALSE).invoices
       IN  /\ \A t \in now .. MaxNow :
                 DwollaWebhook(req, once, t, FALSE) = Outcome(once, 200, "")
           /\ \A i \in once :
                 i.dwolla_transfer_href = Href(id) => i.status = "completed"

\* C7: an invoice was completed at an earlier time than now.
CompletedEarlier ==
    \E i \in invoices : i.status = "completed" /\ i.updated_at < now

\* The status processing a sequence of topics leaves the invoices of transfer
\* number id with.
RECURSIVE AfterDeliveries(_, _, _)
AfterDeliveries(table, topics, id) ==
    IF topics = <<>> THEN table
    ELSE AfterDeliveries(
            DwollaWebhook(Notification(Head(topics), id), table, now, FALSE).invoices,
            Tail(topics), id)

StatusAfter(topics, id) ==
    {i.status : i \in {j \in AfterDeliveries(invoices, topics, id) :
                          j.dwolla_transfer_href = Href(id)}}

\* C8: the status an invoice ends with is the same for both orders of a
\* transfer_completed and a transfer_failed notification, and with either of
\* them delivered twice.
FinalStatusIndependentOfOrder ==
    \A id \in 1 .. transferSeq :
       LET c == "transfer_completed"
           f == "transfer_failed"
       IN  /\ StatusAfter(<<c, f>>, id) = StatusAfter(<<f, c>>, id)
           /\ StatusAfter(<<c, f, c>>, id) = StatusAfter(<<c, c, f>>, id)

\* C9: no two invoices have the same customer, period_start and period_end.
OneInvoicePerPeriod ==
    \A i, j \in invoices :
       (/\ i.crm_contact_id = j.crm_contact_id
        /\ i.period_start = j.period_start
        /\ i.period_end = j.period_end) => i.id = j.id

\* C2: the ledger holds at most one row per idempotency key, and the customer,
\* units and time of that row are those of the body of the first request with
\* the key that was answered recorded.
IdempotentIngestion ==
    /\ \A k \in Keys : Cardinality(RowsOf(usage_ledger, k)) <= 1
    /\ \A u \in usage_ledger : \E b \in firstRecorded :
          /\ b.idempotency_key.s = u.idempotency_key
          /\ b.crm_contact_id.s = u.crm_contact_id
          /\ Number(b.units).n = u.units
          /\ FromISO(b.occurred_at.s) = u.occurred_at
    /\ \A b \in firstRecorded :
          Cardinality({x \in firstRecorded : x.idempotency_key = b.idempotency_key}) = 1

\* C2: a request that reuses a recorded key with another customer, quantity and
\* time has run its INSERT, which inserted nothing, and is about to commit.
RetryWithOtherFields ==
    \E s \in UsageSlots : \E u \in usage_ledger :
       /\ usage[s].pc = "commit"
       /\ usage[s].rows = 0
       /\ usage[s].body.idempotency_key.s = u.idempotency_key
       /\ usage[s].body.crm_contact_id.s # u.crm_contact_id
       /\ Number(usage[s].body.units).n # u.units
       /\ FromISO(usage[s].body.occurred_at.s) # u.occurred_at

\* C3: in every step, a usage row whose invoice_id is set is still in the
\* ledger with the same invoice_id after the step.
InvoiceIdSetOnce ==
    [][\A u \in usage_ledger : u.invoice_id # NULL =>
          \E v \in usage_ledger' : /\ v.idempotency_key = u.idempotency_key
                                    /\ v.invoice_id = u.invoice_id]_vars

\* C3: two runs are in their transactions at once, and the claim UPDATE of one
\* has found a row it summed already claimed by the other's invoice.
ClaimLostToOtherRun ==
    \E r \in Runs : \E o \in Runs \ {r} : \E u \in usage_ledger :
       /\ bill[r].pc = "commit"
       /\ u.idempotency_key \in bill[r].customers[bill[r].i].keys
       /\ u.idempotency_key \notin bill[r].pendClaims
       /\ u.invoice_id # NULL
       /\ \E e \in LogOf(u.invoice_id) : e.run = o

\* The ids of the invoices and the invoice ids the usage rows reference.
Ids(table) == {i.id : i \in table}
Referenced(ledger) == {u.invoice_id : u \in ledger} \ {NULL}

\* C10: the invoice of an open transaction is not in the table and no usage
\* row references it; every invoice id a usage row references is in the table;
\* and the step that makes an invoice visible is the step that makes the usage
\* rows its transaction claims reference it, no other step adding a reference.
InvoiceAndClaimsAtomic ==
    /\ [](/\ \A r \in Runs :
              bill[r].pc \in {"update", "commit", "catch"} =>
                 bill[r].invoiceId \notin Ids(invoices) \cup Referenced(usage_ledger)
          /\ Referenced(usage_ledger) \subseteq Ids(invoices))
    /\ [][/\ \A i \in NewInvoices(invoices, invoices') : \E r \in Runs :
                /\ bill[r].pc = "commit"
                /\ bill[r].invoiceId = i.id
                /\ \A k \in bill[r].pendClaims : \A v \in RowsOf(usage_ledger', k) :
                      v.invoice_id = i.id
          /\ Referenced(usage_ledger') \ Referenced(usage_ledger)
                \subseteq Ids(NewInvoices(invoices, invoices'))]_vars

\* C10: a transaction has failed after its invoice INSERT and before its claim
\* UPDATE took effect, while another run is in its own transaction.
FailedBetweenInsertAndClaim ==
    \E r \in Runs : \E o \in Runs \ {r} :
       /\ bill[r].pc = "catch"
       /\ bill[r].invoiceId # NULL
       /\ bill[r].pendClaims = {}
       /\ bill[o].pc \in {"transfer", "insert", "update", "commit"}

\* The units of the usage rows written under a set of keys.
UnitsOf(ledger, keys) == SumUnits({u \in ledger : u.idempotency_key \in keys})

\* C11: a run has at most one invoice per customer; the step in which a run
\* commits a customer's transaction makes exactly one invoice visible, whose
\* amount is the rounded price of the units of all the usage rows the run's
\* query found unbilled for the customer, and leaves each of those rows
\* referencing that invoice.
OneInvoiceForSummedUsage ==
    /\ [](\A e, f \in txnLog :
             (e.run = f.run /\ e.crm_contact_id = f.crm_contact_id) => e.id = f.id)
    /\ [][\A r \in Runs :
             (bill[r].pc = "commit" /\ bill'[r].pc = "loop") =>
                LET cust == bill[r].customers[bill[r].i]
                    new == NewInvoices(invoices, invoices')
                IN  /\ Cardinality(new) = 1
                    /\ \A i \in new :
                          /\ i.id = bill[r].invoiceId
                          /\ i.crm_contact_id = cust.crm_contact_id
                          /\ cust.keys =
                                {u.idempotency_key :
                                   u \in {x \in bill[r].pre :
                                            /\ x.invoice_id = NULL
                                            /\ x.occurred_at >= bill[r].start
                                            /\ x.occurred_at < bill[r].end}}
                                \cap cust.keys
                          /\ i.amount_cents = MathRound(
                                UnitsOf(usage_ledger, cust.keys) * PRICE_PER_UNIT_CENTS,
                                UnitScale)
                          /\ \A k \in cust.keys : \A u \in RowsOf(usage_ledger', k) :
                                u.invoice_id = i.id]_vars

\* C11: an invoice for the three units of two usage rows, both referencing it.
OneInvoiceForTwoRecords ==
    \E i \in invoices : \E e \in LogOf(i.id) :
       /\ Cardinality(e.summed) = 2
       /\ i.amount_cents = 1200
       /\ \A k \in e.summed : \A u \in RowsOf(usage_ledger, k) : u.invoice_id = i.id

\* The customers that are active and have a funding source.
Eligible(table) ==
    {x.crm_contact_id : x \in {y \in table : /\ y.status = "active"
                                              /\ y.dwolla_funding_href # NoHref}}

\* The customer a run is billing.
Billing(r) == bill[r].customers[bill[r].i].crm_contact_id

\* C12: the customers a run lists and counts in total are customers its query
\* found active with a funding source; the counters count listed customers
\* only; a transfer is requested, an invoice made visible and a usage row
\* claimed only for the listed customer the run is at.
OnlyEligibleCustomersBilled ==
    /\ [](\A r \in Runs : bill[r].pc \notin {"idle", "done"} =>
             /\ bill[r].results.total = Len(bill[r].customers)
             /\ bill[r].i \in 1 .. Len(bill[r].customers) + 1
             /\ bill[r].results.successful + bill[r].results.failed
                   + bill[r].results.skipped = bill[r].i - 1
             /\ bill[r].pc # "loop" => bill[r].i <= Len(bill[r].customers))
    /\ [][/\ \A r \in Runs : (bill[r].pc = "idle" /\ bill'[r].pc = "loop") =>
                \A n \in DOMAIN bill'[r].customers :
                   bill'[r].customers[n].crm_contact_id \in Eligible(customers)
          /\ \A r \in Runs : (bill[r].pc \notin {"idle", "done"}
                               /\ bill'[r].pc \notin {"idle", "done"}) =>
                bill'[r].customers = bill[r].customers
          /\ transferSeq' # transferSeq =>
                \E r \in Runs : bill[r].pc = "transfer" /\ bill'[r] # bill[r]
          /\ \A i \in NewInvoices(invoices, invoices') : \E r \in Runs :
                bill[r].pc = "commit" /\ i.crm_contact_id = Billing(r)
          /\ \A u \in usage_ledger' :
                (u.invoice_id # NULL /\ u \notin usage_ledger) =>
                   \E r \in Runs : bill[r].pc = "commit" /\ u.crm_contact_id = Billing(r)
      ]_vars

\* C12: a run has listed no customer while a customer that is pending, without
\* a funding source, has unbilled usage in the run's window.
PendingCustomerExcluded ==
    \E r \in Runs : \E u \in usage_ledger : \E c \in customers :
       /\ bill[r].pc = "loop"
       /\ bill[r].customers = <<>>
       /\ bill[r].results.total = 0
       /\ u.invoice_id = NULL
       /\ u.occurred_at >= bill[r].start /\ u.occurred_at < bill[r].end
       /\ c.crm_contact_id = u.crm_contact_id
       /\ c.status = "pending" /\ c.dwolla_funding_href = NoHref

\* C13: a run answers only when no listed customer after the one it is at is
\* left unvisited, whatever failed for the customer it is at.
OtherCustomersStillProcessed ==
    [][\A r \in Runs :
          (bill[r].pc \in {"loop", "transfer", "insert", "update", "commit", "catch"}
           /\ bill'[r].pc = "done") =>
             bill[r].i >= Len(bill[r].customers)]_vars

\* The attempts whose transfer call failed.
FailedTransfers == {e \in txnLog : e.id = NULL}

\* The usage rows of customer c a run over [start, end) finds unbilled.
UnbilledOf(ledger, c, start, end) ==
    {u \in ledger : /\ u.crm_contact_id = c
                    /\ u.invoice_id = NULL
                    /\ u.occurred_at >= start /\ u.occurred_at < end}

Matching(table, evt) ==
    IF evt.json /\ evt.href.t = "string"
    THEN {i \in table : i.dwolla_transfer_href = evt.href.s}
    ELSE {}

\* C15: a notification that passes verification, parses and carries a topic
\* and a resource reference that no invoice has is answered 200, logs no error
\* and leaves every invoice as it is.
UnknownReferenceIsNoOp ==
    \A req \in AnyDeliveries :
       (/\ verifyDwollaWebhookSignature(req, env.DWOLLA_WEBHOOK_SECRET) = "true"
        /\ req.body.json
        /\ req.body.href.t = "string" /\ req.body.topic.t = "string"
        /\ Matching(invoices, req.body) = {}) =>
          DwollaWebhook(req, invoices, now, FALSE) = Outcome(invoices, 200, "")

\* C15: the processor created a transfer whose invoice was rolled back, so
\* that its notifications refer to no invoice.
TransferWithoutInvoice ==
    \E id \in 1 .. transferSeq :
       /\ \A i \in invoices : i.dwolla_transfer_href # Href(id)
       /\ \A r \in Runs : bill[r].pc \in {"idle", "loop", "done"}

\* C16: every request is answered 200, whatever its signature and body and
\* whether or not the UPDATE fails.
AlwaysAcknowledged ==
    \A req \in AnyDeliveries : \A dbFails \in BOOLEAN :
       DwollaWebhook(req, invoices, now, dbFails).status = 200

\* The signature of a request is the digest of its body under the configured
\* secret.
Verifies(req) ==
    /\ env.DWOLLA_WEBHOOK_SECRET # ""
    /\ req.signature = HmacHex(env.DWOLLA_WEBHOOK_SECRET, req.body)

\* C17: a request whose signature does not verify under a configured secret
\* leaves every invoice as it is.
UnverifiedChangesNothing ==
    \A req \in AnyDeliveries :
       ~Verifies(req) => DwollaWebhook(req, invoices, now, FALSE).invoices = invoices

\* A body with the fields the recorder requires: the customer and the key
\* non-empty strings, units a positive number or a string that denotes one,
\* occurred_at a string that denotes an instant.
WellFormed(body) ==
    /\ body.crm_contact_id.t = "string" /\ body.crm_contact_id # JsStr("")
    /\ body.idempotency_key.t = "string" /\ body.idempotency_key # JsStr("")
    /\ \/ body.units.t = "number" /\ body.units.n > 0
       \/ body.units.t = "string" /\ \E p \in NumericLiterals :
             p[1] = body.units.s /\ p[1] # "" /\ p[2] > 0
    /\ body.occurred_at.t = "string" /\ \E t \in Instants : body.occurred_at = JsStr(ToISO(t))

\* C18: an authenticated request whose body lacks a field or has a malformed
\* one is answered 400 before anything is sent to the datastore, so that every
\* request with an open transaction has a well-formed body and every row of
\* customers and usage_ledger has a non-empty customer, every usage row a
\* non-empty key and positive units.
InvalidPayloadRejected ==
    /\ \A authorization \in CoreHeaders : \A body \in IngestBodies :
          ~WellFormed(body) => UsageRefusal(authorization, body) = 400
    /\ \A s \in UsageSlots : usage[s].pc # "idle" => WellFormed(usage[s].body)
    /\ \A c \in customers : c.crm_contact_id # ""
    /\ \A u \in usage_ledger :
          u.crm_contact_id # "" /\ u.idempotency_key # "" /\ u.units > 0

\* C18: a request that reuses a recorded key with units -1 is refused with 400
\* while the row recorded under the key is in the ledger.
InvalidRetryOfRecordedKey ==
    \E body \in InvalidBodies : \E u \in usage_ledger :
       /\ body.units = JsStr("-1")
       /\ body.idempotency_key = JsStr(u.idempotency_key)
       /\ \E s \in UsageSlots : usage[s].pc = "idle"
       /\ UsageRefusal("Bearer ghl-secret", body) = 400

\* C19: a request that commits is answered 200 with success; it reports
\* recorded exactly when no row had its key before its commit, the row then
\* being its own, and otherwise reports a duplicate and leaves the ledger as it
\* is; two requests in flight never both hold an inserted row under one key.
DuplicatesAbsorbed ==
    /\ [](\A s \in UsageSlots : \A o \in UsageSlots \ {s} :
             (usage[s].pendUsage # NoRow /\ usage[o].pendUsage # NoRow) =>
                usage[s].pendUsage.idempotency_key # usage[o].pendUsage.idempotency_key)
    /\ [][\A s \in UsageSlots :
             (usage[s].pc = "commit" /\ usage'[s].pc = "idle") =>
                LET k == usage[s].body.idempotency_key.s
                    resp == UsageResponse(usage[s].rows)
                IN  /\ resp.status = 200 /\ resp.success
                    /\ resp.recorded <=> RowsOf(usage_ledger, k) = {}
                    /\ Cardinality(RowsOf(usage_ledger', k)) = 1
                    /\ resp.recorded =>
                          /\ RowsOf(usage_ledger', k) = {usage[s].pendUsage}
                          /\ resp.message = "Usage recorded"
                    /\ ~resp.recorded =>
                          /\ usage_ledger' = usage_ledger
                          /\ resp.message = "Duplicate request ignored"]_vars

\* C19: two requests with the same key are in flight: one has inserted its row
\* and not committed yet, the INSERT of the other waits for it.
ConcurrentDuplicate ==
    \E s \in UsageSlots : \E o \in UsageSlots \ {s} :
       /\ usage[s].pc = "insert"
       /\ usage[o].pc = "commit"
       /\ WritesKey(o, usage[s].body.idempotency_key.s)

\* C20: the only step of a usage request that changes customers or
\* usage_ledger is its COMMIT, which writes the customer row and the usage row
\* of the request together; every other step of the request, a failing
\* statement and the rollback among them, leaves both tables as they are.
UsageWritesCommitTogether ==
    [][\A s \in UsageSlots : usage'[s] # usage[s] =>
          IF usage[s].pc = "commit" /\ usage'[s].pc = "idle"
          THEN /\ usage[s].pendCust \in customers'
               /\ usage[s].pendUsage # NoRow => usage[s].pendUsage \in usage_ledger'
               /\ usage[s].pendUsage = NoRow => usage_ledger' = usage_ledger
          ELSE /\ customers' = customers
               /\ usage_ledger' = usage_ledger]_vars

\* C20: the usage INSERT of a request failed after its customer upsert, and the
\* customer is not in the table.
InsertFailedAfterUpsert ==
    \E s \in UsageSlots :
       /\ usage[s].pc = "catch"
       /\ usage[s].pendCust # NoRow
       /\ usage[s].pendUsage = NoRow
       /\ \A c \in customers :
             c.crm_contact_id # usage[s].body.crm_contact_id.s

\* The response of the step in which a usage request ends: the 200 response
\* when the step is its COMMIT, the 500 of the outer catch otherwise.
EndsWith(s) ==
    IF usage[s].pc = "commit" THEN UsageResponse(usage[s].rows).status ELSE 500

\* C21: an authorised request is refused with 400 exactly when its body is not
\* well formed; a request that ends after it entered its transaction ends
\* either with its COMMIT, answered 200 with recorded true exactly when the
\* COMMIT adds a row under its key and recorded false exactly when a row with
\* the key was there and the ledger is left as it is, or from its catch,
\* answered 500, which it enters only from a statement that failed and without
\* a write; the step answered 200 is the step that commits the customer row.
FourOutcomes ==
    /\ [](\A body \in IngestBodies :
             UsageRefusal("Bearer " \o env.GHL_BEARER, body)
                = IF WellFormed(body) THEN 0 ELSE 400)
    /\ [][\A s \in UsageSlots :
             /\ (usage[s].pc = "idle" /\ usage'[s].pc # "idle") =>
                   /\ WellFormed(usage'[s].body)
                   /\ usage'[s].pc = "upsert"
             /\ (usage[s].pc # "catch" /\ usage'[s].pc = "catch") =>
                   /\ usage[s].pc \in {"upsert", "insert", "commit"}
                   /\ customers' = customers /\ usage_ledger' = usage_ledger
             /\ (usage[s].pc # "idle" /\ usage'[s].pc = "idle") =>
                   LET k == usage[s].body.idempotency_key.s
                       resp == UsageResponse(usage[s].rows)
                       added == {u \in usage_ledger' \ usage_ledger : u.idempotency_key = k}
                   IN  /\ usage[s].pc \in {"commit", "catch"}
                       /\ EndsWith(s) = 200 <=> usage[s].pc = "commit"
                       /\ usage[s].pc = "commit" =>
                             /\ usage[s].pendCust \in customers'
                             /\ resp.recorded <=> Cardinality(added) = 1
                             /\ ~resp.recorded <=>
                                   /\ RowsOf(usage_ledger, k) # {}
                                   /\ usage_ledger' = usage_ledger
                       /\ usage[s].pc = "catch" =>
                             /\ EndsWith(s) = 500
                             /\ customers' = customers
                             /\ usage_ledger' = usage_ledger]_vars

\* C21: the COMMIT of a request that inserted a row has failed: the request is
\* in its catch, about to answer 500, and no row with its key is in the ledger.
CommitFailedAfterInsert ==
    \E s \in UsageSlots :
       /\ usage[s].pc = "catch"
       /\ usage[s].pendUsage # NoRow
       /\ RowsOf(usage_ledger, usage[s].body.idempotency_key.s) = {}

\* C22: a usage request whose Authorization header is not the configured
\* credential is refused with 401 whatever its body; a request in a
\* transaction carries the credential of its endpoint; a step that writes a
\* table, draws an invoice id, requests a credential or a transfer is a step
\* of such a request or the provisioning of a customer; and the step that
\* answers a billing request 401 changes nothing else.
UnauthorisedHasNoEffect ==
    /\ [](/\ \A h \in AuthHeaders : \A body \in AuthBodies \cup InvalidBodies :
                h # "Bearer " \o env.GHL_BEARER => UsageRefusal(h, body) = 401
          /\ \A s \in UsageSlots : usage[s].pc # "idle" =>
                usage[s].authorization = "Bearer " \o env.GHL_BEARER
          /\ \A r \in Runs : bill[r].pc \notin {"idle", "done"} =>
                bill[r].authorization = "Bearer admin")
    /\ [][/\ (customers' # customers \/ usage_ledger' # usage_ledger) =>
                \/ /\ customers' # customers
                   /\ UNCHANGED <<usage_ledger, usage, bill>>
                \/ \E s \in UsageSlots :
                      /\ usage[s].pc = "commit" /\ usage'[s].pc = "idle"
                      /\ usage[s].authorization = "Bearer " \o env.GHL_BEARER
                \/ \E r \in Runs :
                      /\ bill[r].pc = "commit" /\ bill'[r].pc = "loop"
                      /\ bill[r].authorization = "Bearer admin"
          /\ <<invoices, invoiceSeq, tokenCache, transferSeq>>'
                # <<invoices, invoiceSeq, tokenCache, transferSeq>> =>
                \E r \in Runs :
                   /\ bill[r].pc \in {"transfer", "insert", "commit"}
                   /\ bill'[r] # bill[r]
                   /\ bill[r].authorization = "Bearer admin"
          /\ \A r \in Runs : (bill'[r] # bill[r] /\ bill'[r].status = 401) =>
                /\ bill[r].pc = "idle"
                /\ bill'[r] = BillDone(401)
                /\ UNCHANGED <<dbVars, tokenCache, transferSeq, usage>>]_vars

\* C22: a billing request has been answered 401 while an active customer with
\* a funding source has unbilled usage in last week's window, and no transfer
\* and no invoice has been created.
RefusedWhileUsageUnbilled ==
    \E r \in Runs : \E u \in usage_ledger :
       /\ bill[r].pc = "done" /\ bill[r].status = 401
       /\ u.crm_contact_id \in Eligible(customers)
       /\ u.invoice_id = NULL
       /\ u.occurred_at >= StartOfWeek(now) - WeekLen /\ u.occurred_at < StartOfWeek(now)
       /\ transferSeq = 0 /\ invoices = {}

\* The invoices in the table that run r inserted.
InvoicesOf(r) == {i \in invoices : \E e \in LogOf(i.id) : e.run = r}

RECURSIVE SumAmounts(_)
SumAmounts(rows) ==
    IF rows = {} THEN 0
    ELSE LET i == CHOOSE x \in rows : TRUE IN i.amount_cents + SumAmounts(rows \ {i})

\* C23: whenever a run is between two customers, and so when it answers with
\* its summary, successful is the number of invoices of the run in the table
\* and total_amount_cents the sum of their amounts; errors has one entry, with
\* a message, per customer counted failed, each for another customer, none of
\* them a customer with an invoice of the run or a customer skipped; the
\* customers gone through are those of the three groups; and at the answer
\* total = successful + failed + skipped.
SummaryConsistent ==
    \A r \in Runs : bill[r].pc = "loop" =>
       LET res == bill[r].results
           done == 1 .. bill[r].i - 1
           gone == {bill[r].customers[n].crm_contact_id : n \in done}
           skipped == {bill[r].customers[n].crm_contact_id :
                          n \in {m \in done : AmountCents(bill[r].customers[m].units) <= 0}}
           billed == {i.crm_contact_id : i \in InvoicesOf(r)}
           failed == {res.errors[n].crm_contact_id : n \in DOMAIN res.errors}
       IN  /\ res.successful = Cardinality(InvoicesOf(r))
           /\ res.successful = Cardinality(billed)
           /\ res.total_amount_cents = SumAmounts(InvoicesOf(r))
           /\ res.failed = Len(res.errors)
           /\ res.failed = Cardinality(failed)
           /\ res.skipped = Cardinality(skipped)
           /\ \A n \in DOMAIN res.errors : res.errors[n].error # ""
           /\ failed \cap billed = {}
           /\ failed \cap skipped = {}
           /\ billed \cap skipped = {}
           /\ failed \cup billed \cup skipped = gone
           /\ res.total = Len(bill[r].customers)
           /\ bill[r].i > Len(bill[r].customers) =>
                 res.total = res.successful + res.failed + res.skipped

\* C23: a run is about to answer with a summary of one customer billed and one
\* failed, or of one billed and one skipped.
SummaryOfTwoOutcomes ==
    \E r \in Runs :
       /\ bill[r].pc = "loop"
       /\ bill[r].i > Len(bill[r].customers)
       /\ bill[r].results.successful = 1
       /\ bill[r].results.total = 2

\* C24: a run is answered otherwise than with its summary only by the step
\* that starts it (401, or the customers query failing); a run that has its
\* list of customers, and all the more one that has billed a customer, ends
\* with the 200 response that carries the summary.
BareFailureOnlyBeforeStart ==
    [][\A r \in Runs :
          (bill[r].pc # "done" /\ bill'[r].pc = "done" /\ bill'[r].status # 200) =>
             /\ bill[r].pc = "idle"
             /\ bill[r].results.successful = 0]_vars

\* dwollaPost with the default retries, called in the current state.
Post(answers) == dwollaPost(tokenCache, now, transferSeq, DefaultRetries, answers)

\* C25: when the first request of a call is answered 401, the call sends a
\* second request with a credential it requested anew, and when that one is
\* answered 401 too the call throws having sent these two requests and no more.
UnauthorizedRetriedOnce ==
    \A answers \in AllAnswers :
       (answers[1] = Unauthorized /\ answers[2] = Unauthorized) =>
          /\ Post(answers).outcome = "throw"
          /\ Post(answers).posts = 2

\* C26: when the first request of a call is answered with a 4xx status other
\* than 401, the call throws having sent that one request.
ClientErrorNotRetried ==
    \A answers \in AllAnswers :
       answers[1] = BadRequest =>
          /\ Post(answers).outcome = "throw"
          /\ Post(answers).posts = 1

\* The delay after the k-th failed attempt, in milliseconds.
ExpectedDelay(k) == IF 1000 * 2 ^ (k - 1) < 5000 THEN 1000 * 2 ^ (k - 1) ELSE 5000

\* C27: against a processor that accepts a request, answers it 5xx or does not
\* answer, a call sends at most retries requests, waits the capped exponential
\* delay after each failed attempt that is not the last, and ends by returning
\* the location of the first request answered 2xx or by throwing after the
\* last attempt.
TransientRetriedWithBackoff ==
    \A answers \in [1 .. DefaultRetries ->
                       {Created, ServerError, NetworkError, LostResponse}] :
       LET out == Post(answers)
           ok == {k \in 1 .. DefaultRetries : answers[k] = Created}
       IN  /\ out.outcome \in {"return", "throw"}
           /\ out.posts \in 1 .. DefaultRetries
           /\ out.delays = [k \in 1 .. out.posts - 1 |-> ExpectedDelay(k)]
           /\ out.outcome = "return" <=> ok # {}
           /\ out.outcome = "return" =>
                 /\ \A k \in ok : out.posts <= k
                 /\ out.posts \in ok
                 /\ out.location = transferSeq + out.created
           /\ out.outcome = "throw" => out.posts = DefaultRetries

\* C28: a transaction is at its invoice INSERT only with the location of a
\* transfer the processor created in this attempt, and at its claim UPDATE and
\* its COMMIT only with its invoice inserted under that location; it reaches
\* the INSERT by the step in which the transfer request returns, draws its
\* invoice id at the INSERT and writes its claims at the UPDATE; and every
\* invoice that becomes visible refers to a transfer the processor created,
\* every claim to an invoice in the table.
TransferThenInvoiceThenClaim ==
    /\ [](\A r \in Runs :
             /\ bill[r].pc = "transfer" =>
                   /\ bill[r].location = NULL /\ bill[r].invoiceId = NULL
                   /\ bill[r].pendInvoice = NoRow /\ bill[r].pendClaims = {}
             /\ bill[r].pc = "insert" =>
                   /\ bill[r].location \in 1 .. transferSeq
                   /\ bill[r].invoiceId = NULL
                   /\ bill[r].pendInvoice = NoRow /\ bill[r].pendClaims = {}
             /\ bill[r].pc \in {"update", "commit"} =>
                   /\ bill[r].location \in 1 .. transferSeq
                   /\ bill[r].invoiceId # NULL
                   /\ IF bill[r].pendInvoice = NoRow THEN FALSE
                      ELSE /\ bill[r].pendInvoice.id = bill[r].invoiceId
                           /\ bill[r].pendInvoice.dwolla_transfer_href
                                 = Href(bill[r].location)
             /\ bill[r].pc = "update" => bill[r].pendClaims = {}
             /\ bill[r].pendClaims # {} => bill[r].pc \in {"commit", "catch"})
    /\ [][/\ \A r \in Runs :
                /\ (bill[r].pc # "insert" /\ bill'[r].pc = "insert") =>
                      /\ bill[r].pc = "transfer"
                      /\ transferSeq' > transferSeq
                      /\ bill'[r].location = transferSeq'
                /\ (bill[r].invoiceId = NULL /\ bill'[r].invoiceId # NULL) =>
                      bill[r].pc = "insert" /\ bill'[r].pc = "update"
                /\ (bill[r].pendClaims = {} /\ bill'[r].pendClaims # {}) =>
                      bill[r].pc = "update" /\ bill'[r].pc = "commit"
          /\ invoiceSeq' # invoiceSeq => \E r \in Runs : bill[r].pc = "insert"
          /\ \A i \in NewInvoices(invoices, invoices') :
                \E id \in 1 .. transferSeq : i.dwolla_transfer_href = Href(id)
          /\ Referenced(usage_ledger') \subseteq Ids(invoices')]_vars

\* C28: a transaction is about to commit its invoice and its claims, the
\* invoice referring to the transfer the processor created for it.
ClaimsAfterInvoiceAfterTransfer ==
    \E r \in Runs :
       /\ bill[r].pc = "commit"
       /\ bill[r].pendInvoice # NoRow
       /\ bill[r].pendClaims # {}
       /\ bill[r].location = transferSeq
       /\ transferSeq > 0

\* The keys of the usage rows that reference invoice id.
ClaimedBy(ledger, id) == {u.idempotency_key : u \in {x \in ledger : x.invoice_id = id}}

\* C29: the usage rows that reference an invoice are the rows its run summed,
\* and these are rows of the invoice's customer with occurred_at in
\* [period_start, period_end).
ClaimedExactlySummed ==
    \A i \in invoices : \A e \in LogOf(i.id) :
       /\ ClaimedBy(usage_ledger, i.id) = e.summed
       /\ \A k \in e.summed : \A u \in RowsOf(usage_ledger, k) :
             /\ u.crm_contact_id = i.crm_contact_id
             /\ u.occurred_at >= i.period_start
             /\ u.occurred_at < i.period_end

\* The pairs of invoices in the table whose runs summed a common usage row.
Overlapping ==
    {p \in invoices \X invoices :
        /\ p[1].id # p[2].id
        /\ \E e \in LogOf(p[1].id) : \E f \in LogOf(p[2].id) : e.summed \cap f.summed # {}}

\* C30: a run sums only rows that are unclaimed when its query reads them, so
\* that two invoices whose runs summed a common row come from two runs that
\* both read it before the claim of either was committed; such invoices are
\* of two runs, refer to two transfers the processor created, each has the
\* rounded price of all the units its run summed as its amount, and the
\* common row references one of them.
DoubleBillingOnlyByOverlappingRuns ==
    /\ [](\A p \in Overlapping :
             \A e \in LogOf(p[1].id) : \A f \in LogOf(p[2].id) :
                /\ e.run # f.run
                /\ p[1].dwolla_transfer_href # p[2].dwolla_transfer_href
                /\ \E id \in 1 .. transferSeq : p[1].dwolla_transfer_href = Href(id)
                /\ p[1].amount_cents = AmountCents(UnitsOf(usage_ledger, e.summed))
                /\ \A k \in e.summed \cap f.summed :
                      /\ RowsOf(usage_ledger, k) # {}
                      /\ \A u \in RowsOf(usage_ledger, k) :
                            u.invoice_id \in {p[1].id, p[2].id})
    /\ [][\A r \in Runs : (bill[r].pc = "idle" /\ bill'[r].pc = "loop") =>
             \A n \in DOMAIN bill'[r].customers :
                /\ bill'[r].customers[n].keys \cap ClaimedKeys(usage_ledger) = {}
                /\ bill'[r].customers[n].units
                      = UnitsOf(usage_ledger, bill'[r].customers[n].keys)]_vars

\* C30: two invoices of two runs are in the table, each for a transfer of its
\* own and for an amount that includes the units of the one usage row both
\* runs summed.
SameUsageBilledTwice ==
    \E p \in Overlapping : \E e \in LogOf(p[1].id) : \E f \in LogOf(p[2].id) :
       /\ e.run # f.run
       /\ e.summed = f.summed
       /\ Cardinality(e.summed) = 1
       /\ p[1].amount_cents = p[2].amount_cents
       /\ p[1].amount_cents = AmountCents(UnitsOf(usage_ledger, e.summed))
       /\ transferSeq >= 2

\* What a caller and the processor see of a call: how it ended, the requests
\* sent, the transfers created and the location returned.
Seen(out) ==
    [outcome |-> out.outcome, posts |-> out.posts, created |-> out.created,
     location |-> out.location]

\* C31: a call whose first request the processor accepts without the caller
\* getting the response, and whose second request it accepts too, returns
\* after two requests, the processor having created two transfers, with the
\* location of the second; a call never creates more transfers than it sends
\* requests; and the invoice a transaction inserts refers to the one transfer
\* whose location the call returned, the transfer the processor created last.
RetryCreatesSecondTransfer ==
    /\ [](\A answers \in AllAnswers :
             LET seen == Seen(Post(answers))
             IN  /\ (answers[1] = LostResponse /\ answers[2] = Created) =>
                       seen = [outcome |-> "return", posts |-> 2, created |-> 2,
                               location |-> transferSeq + 2]
                 /\ seen.created <= seen.posts)
    /\ [][\A r \in Runs :
             /\ (bill[r].pc = "transfer" /\ bill'[r].pc = "insert") =>
                   /\ bill'[r].location = transferSeq'
                   /\ transferSeq' - transferSeq \in 1 .. DefaultRetries
             /\ (bill[r].pc = "insert" /\ bill'[r].pc = "update") =>
                   IF bill'[r].pendInvoice = NoRow THEN FALSE
                   ELSE bill'[r].pendInvoice.dwolla_transfer_href
                           = Href(bill[r].location)]_vars

\* C31: the processor has created two transfers for the one transfer call of
\* the one attempt made, and the invoice in the table refers to the second.
TwoTransfersOneInvoice ==
    /\ transferSeq = 2
    /\ Cardinality(invoices) = 1
    /\ Cardinality(txnLog) = 1
    /\ \A i \in invoices : i.dwolla_transfer_href = Href(2)
    /\ \A r \in Runs : bill[r].pc \in {"idle", "loop", "done"}

\* Usage of a window an invoice in the table has billed the customer for,
\* recorded since: no invoice has claimed it.
LateUsage ==
    {u \in usage_ledger :
        /\ u.invoice_id = NULL
        /\ \E i \in invoices : /\ i.crm_contact_id = u.crm_contact_id
                               /\ i.period_start <= u.occurred_at
                               /\ u.occurred_at < i.period_end}

\* C32: a billing run whose window does not contain the time of a usage row
\* neither sums the row nor claims it, so late usage stays unclaimed through
\* every such run; and whenever a row's invoice_id is set, it is by the commit
\* of a run whose window contains the row's time, with the id of that run's
\* invoice.
LateUsageWaitsForItsWindow ==
    /\ [](\A r \in Runs : \A u \in usage_ledger :
             (u.occurred_at < bill[r].start \/ u.occurred_at >= bill[r].end) =>
                /\ u.idempotency_key \notin bill[r].pendClaims
                /\ \A n \in DOMAIN bill[r].customers :
                      u.idempotency_key \notin bill[r].customers[n].keys)
    /\ [][\A u \in usage_ledger : \A v \in usage_ledger' :
             (v.idempotency_key = u.idempotency_key /\ v.invoice_id # u.invoice_id) =>
                /\ u.invoice_id = NULL
                /\ \E r \in Runs :
                      /\ bill[r].pc = "commit"
                      /\ bill'[r].pc = "loop"
                      /\ v.invoice_id = bill[r].invoiceId
                      /\ bill[r].start <= u.occurred_at
                      /\ u.occurred_at < bill[r].end]_vars

\* C32: the second run, over the week after the one the first run billed, has
\* gone through its customers, and usage of the billed week recorded after the
\* first run is still unclaimed.
LateUsageLeftBySecondRun ==
    /\ LateUsage # {}
    /\ bill["r1"].pc = "done"
    /\ bill["r2"].pc = "loop"
    /\ bill["r2"].i > Len(bill["r2"].customers)
    /\ \A u \in LateUsage : u.occurred_at < bill["r2"].start

\* The row of customer c in a table.
CustomerOf(table, c) == CHOOSE x \in table : x.crm_contact_id = c

\* C33: no step of a usage request, whether it records usage, meets a
\* duplicate key, is refused or fails, changes the status, the funding source
\* reference or the processor reference of a customer in the table; the
\* customers a request adds have status pending and no funding source, so the
\* customers query of a billing run does not select them.
UsageLeavesProvisioningAlone ==
    [][(\E s \in UsageSlots : usage'[s] # usage[s]) =>
          /\ \A c \in customers : \E d \in customers' :
                /\ d.crm_contact_id = c.crm_contact_id
                /\ d.status = c.status
                /\ d.dwolla_funding_href = c.dwolla_funding_href
                /\ d.dwolla_customer_href = c.dwolla_customer_href
          /\ \A d \in customers' :
                (~\E c \in customers : c.crm_contact_id = d.crm_contact_id) =>
                   /\ d.status = "pending"
                   /\ d.dwolla_funding_href = NoHref
                   /\ d.dwolla_customer_href = NoHref
                   /\ d.crm_contact_id \notin Eligible(customers')]_vars

\* C33: a request is about to commit its upsert, under another name, of an
\* active customer with a funding source.
UpsertOfProvisionedCustomer ==
    \E s \in UsageSlots :
       /\ usage[s].pc = "commit"
       /\ \E c \in customers :
             /\ c.crm_contact_id = usage[s].pendCust.crm_contact_id
             /\ c.status = "active"
             /\ c.dwolla_funding_href # NoHref
             /\ c.name # usage[s].pendCust.name
             /\ usage[s].pendCust.status = "active"

\* The topic of a notification, "" when there is none.
TopicOf(evt) == IF evt.json /\ evt.topic.t = "string" THEN evt.topic.s ELSE ""

\* The status a topic stands for.
StatusOf(topic) == IF topic = "transfer_completed" THEN "completed" ELSE "failed"

\* C34: whatever request the transfer notification handler receives, and
\* whether or not its statement fails, the invoices it leaves are the
\* invoices there were, each with its id, customer, period, amount, transfer
\* reference and creation time; an invoice whose status differs is one whose
\* transfer reference is the notification's, the topic being
\* transfer_completed or transfer_failed and the new status the topic's; a
\* request with another topic, without a topic or a reference, or that does
\* not parse leaves the table as it is; and a step that changes the status of
\* an invoice leaves customers, usage rows and the invoice sequence alone.
ReconcilerOnlyTransitions ==
    /\ [](\A req \in AnyDeliveries, dbFails \in BOOLEAN :
             LET evt == req.body
                 out == DwollaWebhook(req, invoices, now, dbFails).invoices
             IN  /\ Ids(out) = Ids(invoices)
                 /\ Cardinality(out) = Cardinality(invoices)
                 /\ \A i \in invoices : \A j \in out :
                       j.id = i.id =>
                          /\ [j EXCEPT !.status = i.status, !.updated_at = i.updated_at] = i
                          /\ j.status # i.status =>
                                /\ TopicOf(evt) \in {"transfer_completed", "transfer_failed"}
                                /\ i \in Matching(invoices, evt)
                                /\ j.status = StatusOf(TopicOf(evt))
                 /\ (\/ TopicOf(evt) \notin {"transfer_completed", "transfer_failed"}
                     \/ Matching(invoices, evt) = {}) => out = invoices)
    /\ [][(\E i \in invoices : \E j \in invoices' : j.id = i.id /\ j.status # i.status)
             => UNCHANGED <<customers, usage_ledger, invoiceSeq, usage, bill>>]_vars

\* C34: a notification has changed the status of an invoice after the instant
\* the invoice was created at, the usage row the invoice claimed still
\* referencing it.
StatusSetByNotification ==
    \E i \in invoices :
       /\ i.status # "initiated"
       /\ i.updated_at > i.created_at
       /\ \E u \in usage_ledger : u.invoice_id = i.id

\* C35: no step removes a customer, a usage row or an invoice from its table;
\* every usage row keeps its idempotency_key, customer, units and occurred_at,
\* and once its invoice_id is set keeps that too.
AppendMostly ==
    [][/\ \A c \in customers :
             \E d \in customers' : d.crm_contact_id = c.crm_contact_id
       /\ \A i \in invoices : \E j \in invoices' : j.id = i.id
       /\ Cardinality(usage_ledger') >= Cardinality(usage_ledger)
       /\ \A u \in usage_ledger :
             \E v \in usage_ledger' :
                /\ [v EXCEPT !.invoice_id = u.invoice_id] = u
                /\ u.invoice_id # NULL => v.invoice_id = u.invoice_id]_vars

\* C35: the tables after each kind of write: a usage row claimed by an invoice
\* that summed one row and whose transfer a notification reported failed,
\* beside a usage row no invoice has claimed, every billing request answered
\* or not yet made.
ClaimedFailedAndNewUsage ==
    /\ \E u \in usage_ledger : \E i \in invoices :
          u.invoice_id = i.id /\ i.status = "failed"
    /\ \E u \in usage_ledger : u.invoice_id = NULL
    /\ \E e \in txnLog : e.id # NULL /\ Cardinality(e.summed) = 1
    /\ \A r \in Runs : bill[r].pc \in {"idle", "done"}

\* The requests that hold a client: between db.connect() and the end of the
\* try statement.
Holding ==
    Cardinality({s \in UsageSlots : usage[s].pc # "idle"})
    + Cardinality({r \in Runs :
                     bill[r].pc \in {"transfer", "insert", "update", "commit", "catch"}})

\* C36: the clients checked out of the pool are those of the usage requests
\* and billing transactions under way, one each, so none is checked out when
\* none is under way; and the step that ends a usage request or a customer's
\* billing transaction, by COMMIT, after ROLLBACK or by the error of ROLLBACK,
\* returns one client to the pool.
NoConnectionLeak ==
    /\ [](checkedOut = Holding)
    /\ [][/\ \A s \in UsageSlots :
                (usage[s].pc # "idle" /\ usage'[s].pc = "idle") =>
                   checkedOut' = checkedOut - 1
          /\ \A r \in Runs :
                (/\ bill[r].pc \in {"commit", "catch"}
                 /\ bill'[r].pc \in {"loop", "done"}) => checkedOut' = checkedOut - 1]_vars

\* C36: the one billing request made has been answered 500 after it requested
\* a transfer, which it is only when the ROLLBACK of the customer's transaction
\* fails; no request is under way, and no client is checked out.
AllReleasedAfterRollbackFailed ==
    /\ bill["r1"].pc = "done" /\ bill["r1"].status = 500
    /\ bill["r2"].pc = "idle"
    /\ transferSeq > 0
    /\ Holding = 0
    /\ checkedOut = 0

\* The invoices open transactions have inserted and not yet committed.
PendingInvoices == {bill[r].pendInvoice : r \in Runs} \ {NoRow}

\* C37: whenever an authentic transfer_completed or transfer_failed
\* notification about a transfer the processor created is processed and
\* acknowledged, whether or not its statement fails, the invoice that records
\* the transfer, in the table or inserted by a transaction that has yet to
\* commit, has the status the topic stands for.
AcknowledgedNotificationTakesEffect ==
    \A id \in 1 .. transferSeq :
       \A topic \in {"transfer_completed", "transfer_failed"}, dbFails \in BOOLEAN :
          LET out == DwollaWebhook(Notification(topic, id), invoices, now, dbFails)
          IN  out.status = 200 =>
                 \A i \in out.invoices \cup PendingInvoices :
                    i.dwolla_transfer_href = Href(id) => i.status = StatusOf(topic)

\* C38: the step that ends a customer's billing transaction after its transfer
\* call returned the reference of the transfer the processor accepted leaves
\* an invoice with that reference in the table.
AcceptedTransferHasInvoice ==
    [][\A r \in Runs :
          (/\ bill[r].pc \in {"insert", "update", "commit", "catch"}
           /\ bill[r].location # NULL
           /\ bill'[r].pc \in {"loop", "done"}) =>
             \E i \in invoices' : i.dwolla_transfer_href = Href(bill[r].location)]_vars

\* C39: every usage row whose invoice_id is set references an invoice in the
\* table, of the row's customer, whose period contains the row's time:
\* period_start <= occurred_at < period_end.
ClaimConsistency ==
    \A u \in usage_ledger :
       u.invoice_id # NULL =>
          \E i \in invoices :
             /\ i.id = u.invoice_id
             /\ i.crm_contact_id = u.crm_contact_id
             /\ i.period_start <= u.occurred_at
             /\ u.occurred_at < i.period_end

\* C39: usage of each of two weeks is claimed by the invoice of its week.
EachWeekClaimedByOwnInvoice ==
    /\ \E u \in usage_ledger : \E i \in invoices :
          u.invoice_id = i.id /\ u.occurred_at = WeekLen - 1 /\ i.period_end = WeekLen
    /\ \E u \in usage_ledger : \E i \in invoices :
          u.invoice_id = i.id /\ u.occurred_at = WeekLen /\ i.period_start = WeekLen

\* C40: a request whose INSERT found its idempotency_key in the ledger holds
\* no usage row to commit; its COMMIT leaves usage_ledger as it is and leaves
\* in customers the row of the customer it names, with the name and the email
\* of the request, the customer's status and references as they were, or a new
\* pending row when the table had none.
DuplicateStillUpsertsCustomer ==
    /\ [](\A s \in UsageSlots :
             (usage[s].pc = "commit" /\ usage[s].rows = 0) =>
                /\ usage[s].pendUsage = NoRow
                /\ \E u \in usage_ledger :
                      u.idempotency_key = usage[s].body.idempotency_key.s)
    /\ [][\A s \in UsageSlots :
             (usage[s].pc = "commit" /\ usage[s].rows = 0 /\ usage'[s].pc = "idle") =>
                LET c == usage[s].body.crm_contact_id.s
                    known == \E x \in customers : x.crm_contact_id = c
                    row == CustomerRow(c, usage[s].body.name.s, usage[s].body.email.s,
                                       NoHref, NoHref, "pending")
                IN  /\ usage_ledger' = usage_ledger
                    /\ \E x \in customers' : x.crm_contact_id = c
                    /\ CustomerOf(customers', c) =
                          IF known
                          THEN [CustomerOf(customers, c) EXCEPT !.name = row.name,
                                                                !.email = row.email]
                          ELSE row]_vars

\* C40: a request that names a customer the table does not hold, with a key
\* the ledger holds under another customer, is about to commit.
DuplicateNamesNewCustomer ==
    \E s \in UsageSlots :
       /\ usage[s].pc = "commit"
       /\ usage[s].rows = 0
       /\ ~\E x \in customers : x.crm_contact_id = usage[s].body.crm_contact_id.s
       /\ \E u \in usage_ledger :
             /\ u.idempotency_key = usage[s].body.idempotency_key.s
             /\ u.crm_contact_id # usage[s].body.crm_contact_id.s

====
